---------------------------- MODULE Spec2Model ----------------------------
(***************************************************************************)
(* Electron-density engine of bio_files: the CCP4/MRC binary reader        *)
(* (src/src/map.rs), the density sampling operations, and the structure-   *)
(* factor reconstruction (src/src/map_loading.rs).                         *)
(*                                                                         *)
(* Numbers.  f32/f64 values are modelled as exact rationals <<num, den>>   *)
(* with den > 0; every input drawn below is a value on which the code's    *)
(* floating-point operations (floor, round, the products with small        *)
(* integers) are exact, so the rational result is the float result.        *)
(* Complex32 values are triples <<re, im, den>>, the value (re + i*im)/den *)
(* (amplitudes are integers, phases and phase shifts are multiples of a    *)
(* quarter turn).                                                          *)
(* The unit cell is orthogonal, so ortho_inv is diag(1/a, 1/b, 1/c).       *)
(***************************************************************************)
EXTENDS Integers, Sequences, FiniteSets, TLC

VARIABLES
    src,      \* the byte source handed to DensityMap::new
    result,   \* what DensityMap::new returned: nothing yet, Ok(map), Err, or a panic
    sample,   \* the last sampling call on the map and what it returned
    pc,       \* position of sf_cif_to_map in its pipeline
    rows,     \* rows of the reflection loop, as parsed
    refls,    \* accepted reflections (Vec<Ref>)
    symops,   \* symmetry operators (Vec<SymOp>)
    maxidx,   \* <<hmax, kmax, lmax>>
    dims,     \* <<nx, ny, nz>> chosen by the grid sizer
    grid,     \* the complex reciprocal grid
    count,    \* per-cell contribution counter
    cursor,   \* <<reflection index, operator index>> of the assembly loop
    fftlog,   \* the steps of the Fourier reconstruction taken so far, in order
    text,     \* the mmCIF text handed to sf_cif_to_map, a sequence of lines
    lineno,   \* the next line of text the running scanner reads
    scan,     \* the locals of the running line scanner
    given     \* what the text was written from (never read by the program)

vars == <<src, result, sample, pc, rows, refls, symops, maxidx, dims, grid, count, cursor,
          fftlog, text, lineno, scan, given>>

mapVars == <<src, result, sample>>
sfVars == <<pc, rows, refls, symops, maxidx, dims, grid, count, cursor, fftlog>>
cifVars == <<text, lineno, scan, given>>

---------------------------------------------------------------------------
(* Bounds of the model.                                                    *)

\* largest grid extent per axis of the sources whose maps are sampled
MaxN == 3
\* largest grid extent per axis of the sources that exercise header validation
MaxVN == 2
\* integer cell shifts k tried in the periodicity check, -MaxShift..MaxShift
MaxShift == 2

---------------------------------------------------------------------------
(* Program constants.                                                      *)

HEADER_SIZE == 1024
\* the header is read up to the end of the 4-byte tag at word 52
TAG_END == 212
\* EPS = 0.0001 in the unit of the modelled origin fields (1e-5 Angstrom)
EPS == 10
OriginUnitsPerAngstrom == EPS * 10000

---------------------------------------------------------------------------
(* Arithmetic helpers.                                                     *)

Abs(x) == IF x < 0 THEN -x ELSE x

Max2(a, b) == IF a >= b THEN a ELSE b

\* Rust's % on signed integers: the remainder has the sign of the dividend.
RemT(a, n) == IF a >= 0 THEN a % n ELSE -((-a) % n)

\* f64::floor of the rational r
FloorRat(r) == r[1] \div r[2]

\* f64::round of the rational r: half-way cases round away from zero
RoundRat(r) ==
    IF r[1] >= 0 THEN (2 * r[1] + r[2]) \div (2 * r[2])
    ELSE -((2 * (-r[1]) + r[2]) \div (2 * r[2]))

RatEq(p, q) == p[1] * q[2] = q[1] * p[2]

RECURSIVE gcd(_, _)
\* the inner fn gcd of lcm: while y != 0 { t = y; y = x % y; x = t }
gcd(x, y) == IF y = 0 THEN x ELSE gcd(y, x % y)

\* lcm: a / gcd(a, b) * b
lcm(a, b) == (a \div gcd(a, b)) * b

RECURSIVE LcmOf(_, _)
\* the least common multiple of f[i], i >= from
LcmOf(f, from) ==
    IF from \notin DOMAIN f THEN 1 ELSE lcm(f[from], LcmOf(f, from + 1))

RECURSIVE SumOf(_, _)
\* the sum of the integers f[i], i >= from
SumOf(f, from) ==
    IF from \notin DOMAIN f THEN 0 ELSE f[from] + SumOf(f, from + 1)

RatAdd(p, q) == <<p[1] * q[2] + q[1] * p[2], p[2] * q[2]>>

\* f64 division n / d; a zero divisor gives a non-finite value, <<_, 0>>
RatDiv(p, q) ==
    IF q[1] = 0 THEN <<p[1], 0>>
    ELSE IF q[1] < 0 THEN <<-(p[1] * q[2]), -(p[2] * q[1])>>
    ELSE <<p[1] * q[2], p[2] * q[1]>>

RatSub(p, q) == <<p[1] * q[2] - q[1] * p[2], p[2] * q[2]>>
RatMul(p, q) == <<p[1] * q[1], p[2] * q[2]>>
RatLess(p, q) == p[1] * q[2] < q[1] * p[2]

\* a rational in lowest terms; a zero denominator (NaN, infinity) is kept
RatNorm(r) ==
    IF r[2] = 0 THEN r
    ELSE LET g == gcd(Abs(r[1]), r[2]) IN <<r[1] \div g, r[2] \div g>>

\* a float that is no number
IsNaN(r) == r[2] = 0

\* n is the square of an integer
IsSquare(n) == \E a \in 0..(IF n < 1024 THEN n ELSE 1024) : a * a = n

\* the rational in lowest terms r has a rational square root
IsSquareRat(r) == r[2] = 0 \/ (r[1] >= 0 /\ IsSquare(r[1]) /\ IsSquare(r[2]))

\* f32::sqrt of a rational in lowest terms that has a rational square root
SqrtRat(r) ==
    IF r[2] = 0 THEN r
    ELSE <<CHOOSE a \in 0..r[1] : a * a = r[1], CHOOSE a \in 1..r[2] : a * a = r[2]>>

\* Option<f32>: <<>> is None, <<v>> is Some(v)
None == <<>>
Some(v) == <<v>>
IsSome(o) == Len(o) = 1

---------------------------------------------------------------------------
(* The byte source.  A source holds `len` bytes.  Its header words are the *)
(* fields of the record; the payload is a sequence of floats stored from   *)
(* the end of the symmetry block on.  Float i is step * i + swing * (i % 2)  *)
(* in units of 1/scale; with step 1, swing 0 and scale 1 it is 0.0, 1.0,   *)
(* 2.0, ..., so that a voxel value names its position in file order.       *)

PayloadStart(s) == HEADER_SIZE + Max2(s.nsymbt, 0)

\* the f32 read at byte offset o (a read inside the header or symmetry
\* block yields a value that is no payload float: -1)
FloatAt(s, o) ==
    IF o >= PayloadStart(s) /\ (o - PayloadStart(s)) % 4 = 0
    THEN LET i == (o - PayloadStart(s)) \div 4 IN s.step * i + s.swing * (i % 2)
    ELSE -1

NoHdr == [nx |-> 0]

ErrEof == "UnexpectedEof"
ErrTag == "Invalid MAP tag in header."
ErrMode == "Unsupported mode"

\* the MapHeader built at the end of read_map_header: an origin field is
\* Some only if its magnitude exceeds EPS
MapHeaderOf(s) ==
    [nx |-> s.nx, ny |-> s.ny, nz |-> s.nz, mode |-> s.mode,
     nxstart |-> s.nstart[1], nystart |-> s.nstart[2], nzstart |-> s.nstart[3],
     mx |-> s.m[1], my |-> s.m[2], mz |-> s.m[3],
     cell |-> s.cell,
     mapc |-> s.mapc, mapr |-> s.mapr, maps |-> s.maps,
     nsymbt |-> s.nsymbt,
     xorigin |-> IF Abs(s.origin[1]) > EPS THEN Some(s.origin[1]) ELSE None,
     yorigin |-> IF Abs(s.origin[2]) > EPS THEN Some(s.origin[2]) ELSE None,
     zorigin |-> IF Abs(s.origin[3]) > EPS THEN Some(s.origin[3]) ELSE None]

\* read_map_header with the tag comparison left out
read_map_header_NoTagCheck(s) ==
    IF s.len < TAG_END THEN [ok |-> FALSE, err |-> ErrEof, hdr |-> NoHdr]
    ELSE [ok |-> TRUE, err |-> "", hdr |-> MapHeaderOf(s)]

\* read_map_header: every field read lies before byte TAG_END, the last read
\* being the tag; a short source fails the first read that passes its end.
read_map_header(s) ==
    IF s.len < TAG_END THEN [ok |-> FALSE, err |-> ErrEof, hdr |-> NoHdr]
    ELSE IF ~s.tag THEN [ok |-> FALSE, err |-> ErrTag, hdr |-> NoHdr]
    ELSE [ok |-> TRUE, err |-> "", hdr |-> MapHeaderOf(s)]

\* the largest i32
MaxI32 == 2147483647
MinI32 == -MaxI32 - 1

\* i32 addition that wraps around, as in a build without overflow checks
AddI32(x, y) ==
    IF x >= 0 /\ y >= 0 /\ x > MaxI32 - y THEN (x - MaxI32 - 1) + (y - MaxI32 - 1)
    ELSE IF x < 0 /\ y < 0 /\ x < MinI32 - y THEN (x + MaxI32 + 1) + (y + MaxI32 + 1)
    ELSE x + y

NegI32(x) == IF x = MinI32 THEN x ELSE -x

RECURSIVE MulI32(_, _)
\* i32 multiplication that wraps around, by doubling
MulI32(a, b) ==
    IF b = 0 THEN 0
    ELSE IF b < 0 THEN NegI32(MulI32(a, NegI32(b)))
    ELSE CHOOSE r \in {AddI32(AddI32(h, h), IF b % 2 = 1 THEN a ELSE 0) :
                          h \in {MulI32(a, b \div 2)}} : TRUE

\* a * b does not fit an i32
MulOverflows(a, b) ==
    /\ a # 0 /\ b # 0
    /\ IF b = MinI32 THEN a # 1
       ELSE IF b < 0 /\ a = MinI32 THEN TRUE
       ELSE LET w == MulI32(a, b) IN
            \/ w % Abs(b) # 0
            \/ w \div Abs(b) # (IF b > 0 THEN a ELSE -a)

\* HEADER_SIZE + hdr.nsymbt as u64 does not fit a u64: a negative nsymbt
\* is cast to 2^64 + nsymbt
SeekOverflows(nsymbt) == nsymbt < 0 /\ nsymbt >= -HEADER_SIZE

\* hdr.nx * hdr.ny * hdr.nz overflows in one of its two multiplications
ProductOverflows(hdr) ==
    MulOverflows(hdr.nx, hdr.ny) \/ MulOverflows(MulI32(hdr.nx, hdr.ny), hdr.nz)

\* read_header_dens: kind is "ok", "err" or "panic"
read_header_dens(s) ==
    LET h == read_map_header(s) IN
    IF ~h.ok THEN [kind |-> "err", err |-> h.err, hdr |-> NoHdr, dens |-> <<>>]
    ELSE IF h.hdr.mode # 2 THEN [kind |-> "err", err |-> ErrMode, hdr |-> NoHdr, dens |-> <<>>]
    ELSE
        LET start == HEADER_SIZE + h.hdr.nsymbt
            n == MulI32(MulI32(h.hdr.nx, h.hdr.ny), h.hdr.nz)
        IN
        \* a negative product cast to usize asks Vec::with_capacity for more
        \* than isize::MAX bytes: capacity overflow
        IF n < 0 THEN [kind |-> "panic", err |-> "capacity overflow", hdr |-> NoHdr, dens |-> <<>>]
        ELSE IF n > 0 /\ (s.len - start) \div 4 < n
            THEN [kind |-> "err", err |-> ErrEof, hdr |-> NoHdr, dens |-> <<>>]
        ELSE [kind |-> "ok", err |-> "", hdr |-> h.hdr,
               dens |-> [i \in 0..(n - 1) |-> FloatAt(s, start + 4 * i)]]

\* UnitCell::cartesian_to_fractional for the orthogonal cell: ortho_inv * c
cartesian_to_fractional(cell, c) ==
    [i \in 0..2 |-> <<c[i][1], c[i][2] * cell[i + 1]>>]

\* get_origin_frac; the origin fields are in 1e-5 Angstrom
get_origin_frac(hdr) ==
    IF IsSome(hdr.xorigin) /\ IsSome(hdr.yorigin) /\ IsSome(hdr.zorigin)
    THEN cartesian_to_fractional(hdr.cell,
            [i \in 0..2 |-> <<(<<hdr.xorigin[1], hdr.yorigin[1], hdr.zorigin[1]>>)[i + 1],
                              OriginUnitsPerAngstrom>>])
    ELSE [i \in 0..2 |-> <<(<<hdr.nxstart, hdr.nystart, hdr.nzstart>>)[i + 1],
                           (<<hdr.mx, hdr.my, hdr.mz>>)[i + 1]>>]

\* perm_f2c = [mapc - 1, mapr - 1, maps - 1]
PermF2C(hdr) == [f \in 0..2 |-> (<<hdr.mapc, hdr.mapr, hdr.maps>>)[f + 1] - 1]

\* perm_c2f: starts as [0; 3]; for (f, c) in perm_f2c: perm_c2f[c] = f
PermC2F(f2c) ==
    LET p0 == [c \in 0..2 |-> 0]
        p1 == [p0 EXCEPT ![f2c[0]] = 0]
        p2 == [p1 EXCEPT ![f2c[1]] = 1]
    IN [p2 EXCEPT ![f2c[2]] = 2]

NoMap == [hdr |-> NoHdr]

\* mean = (sum of data) / data.len(), NaN for no data
MeanOf(data) == RatNorm(<<SumOf(data, 0), Cardinality(DOMAIN data)>>)

\* variance = (sum of (v - mean)^2) / n
VarianceOf(data) ==
    LET n == Cardinality(DOMAIN data)
        total == SumOf(data, 0)
    IN RatNorm(<<SumOf([i \in DOMAIN data |-> (data[i] * n - total) * (data[i] * n - total)], 0),
                 n * n * n>>)

\* DensityMap::new.  data, mean and variance are in units of 1/scale;
\* inv_sigma is kept as the variance it is computed from
DensityMapNew(s) ==
    LET r == read_header_dens(s) IN
    IF r.kind # "ok" THEN [kind |-> r.kind, err |-> r.err, map |-> NoMap]
    ELSE
        LET f2c == PermF2C(r.hdr) IN
        \* `mapc as usize - 1` underflows for a code <= 0 and perm_c2f[c]
        \* is out of bounds for a code > 3: both panic
        IF \E f \in 0..2 : f2c[f] \notin 0..2
        THEN [kind |-> "panic", err |-> "index out of bounds", map |-> NoMap]
        ELSE [kind |-> "ok", err |-> "",
              map |-> [hdr |-> r.hdr,
                       cell |-> r.hdr.cell,
                       origin_frac |-> get_origin_frac(r.hdr),
                       perm_f2c |-> f2c,
                       perm_c2f |-> PermC2F(f2c),
                       data |-> r.dens,
                       scale |-> s.scale,
                       mean |-> MeanOf(r.dens),
                       variance |-> VarianceOf(r.dens)]]

\* 1e-6 is one part in SigmaFloorParts
SigmaFloorParts == 1000000

\* sigma = variance.sqrt().max(1e-6): f32::max returns the other operand
\* for a NaN
Sigma(dm) ==
    LET floor == RatNorm(<<dm.scale, SigmaFloorParts>>)
        root == SqrtRat(dm.variance)
    IN IF IsNaN(root) \/ RatLess(root, floor) THEN floor ELSE root

\* inv_sigma = 1. / sigma
InvSigma(dm) == RatDiv(<<1, 1>>, Sigma(dm))

\* the deviation is left out: val * inv_sigma
density_to_sig_NoMean(dm, val) == RatNorm(RatMul(val, InvSigma(dm)))

\* density_to_sig: (val - self.mean) * self.inv_sigma
density_to_sig(dm, val) == RatNorm(RatMul(RatSub(val, dm.mean), InvSigma(dm)))

---------------------------------------------------------------------------
(* Density sampling (DensityMap::density_at_point and                      *)
(* density_at_point_trilinear).  A Cartesian point is [0..2 -> rational].  *)

\* pmod: ((i % n as isize) + n as isize) as usize % n
pmod(i, n) == (RemT(i, n) + n) % n

\* the wrap left out: the fractional coordinate is used as it is
WrapFrac_NoWrap(r) == r

\* frac.x -= frac.x.floor()
WrapFrac(r) == <<r[1] - FloorRat(r) * r[2], r[2]>>

\* f64::round replaced by rounding half-way cases up (floor(x + 0.5))
RoundIndex_HalfUp(g) == (2 * g[1] + g[2]) \div (2 * g[2])

\* (frac * m - 0.5).round() as isize
RoundIndex(g) == RoundRat(g)

\* frac * m - 0.5, the grid coordinate along one crystallographic axis
GridCoord(fr, m) == <<2 * fr[1] * m - fr[2], 2 * fr[2]>>

\* a Rust array [a, b, c], indexed from 0
Arr3(a, b, c) == (0 :> a) @@ (1 :> b) @@ (2 :> c)

HdrN(hdr) == Arr3(hdr.nx, hdr.ny, hdr.nz)
HdrM(hdr) == Arr3(hdr.mx, hdr.my, hdr.mz)

\* (z * ny + y) * nx + x
LinearOffset(v, n) == (v[2] * n[1] + v[1]) * n[0] + v[0]

\* the grid coordinates frac * m - 0.5 of a Cartesian point, after the
\* Cartesian-to-fractional transform and the wrap of each component
GridCoords(dm, cart) ==
    LET f0 == cartesian_to_fractional(dm.cell, cart)
        m == HdrM(dm.hdr)
    IN Arr3(GridCoord(WrapFrac(f0[0]), m[0]),
            GridCoord(WrapFrac(f0[1]), m[1]),
            GridCoord(WrapFrac(f0[2]), m[2]))

\* the lookup of density_at_point from the crystallographic index ic:
\* ifile = [pmod(ic[perm_c2f[0]], nx), pmod(ic[perm_c2f[1]], ny),
\* pmod(ic[perm_c2f[2]], nz)], then data[offset]
NearestLookup(dm, n, ic) ==
    LET ifile == Arr3(pmod(ic[dm.perm_c2f[0]], n[0]),
                      pmod(ic[dm.perm_c2f[1]], n[1]),
                      pmod(ic[dm.perm_c2f[2]], n[2]))
        offset == LinearOffset(ifile, n)
    IN
    IF offset \in DOMAIN dm.data
    THEN [panic |-> FALSE, ic |-> ic, ifile |-> ifile, offset |-> offset,
          value |-> <<dm.data[offset], 1>>]
    ELSE [panic |-> TRUE, ic |-> ic, ifile |-> ifile, offset |-> offset,
          value |-> <<0, 1>>]

\* density_at_point: the crystallographic index ic, the file index ifile,
\* the offset read and the value there; indexing data out of bounds and a
\* remainder by a zero extent panic
density_at_point(dm, cart) ==
    LET n == HdrN(dm.hdr)
        g == GridCoords(dm, cart)
        ic == Arr3(RoundIndex(g[0]), RoundIndex(g[1]), RoundIndex(g[2]))
    IN
    IF \E f \in 0..2 : n[f] = 0
    THEN [panic |-> TRUE, ic |-> ic, ifile |-> ic, offset |-> -1, value |-> <<0, 1>>]
    ELSE NearestLookup(dm, n, ic)

\* one corner of the trilinear cell: cidx is its crystallographic index
\* (the lower corner plus 0 or 1 per axis), wn its weight numerator
TrilinearCorner(dm, n, cidx, wn) ==
    LET \* fx = pmod(cx, nx), fy = pmod(cy, ny), fz = pmod(cz, nz)
        ifile == Arr3(pmod(cidx[0], n[0]), pmod(cidx[1], n[1]), pmod(cidx[2], n[2]))
        \* voxel = [ifile[perm_c2f[0]], ifile[perm_c2f[1]], ifile[perm_c2f[2]]]
        voxel == Arr3(ifile[dm.perm_c2f[0]], ifile[dm.perm_c2f[1]], ifile[dm.perm_c2f[2]])
    IN [cidx |-> cidx, voxel |-> voxel, offset |-> LinearOffset(voxel, n), w |-> wn]

\* rho += w_x * w_y * w_z * self.data[offset] over the corners in loop order
TrilinearSum(dm, corners, wden) ==
    IF \E j \in 1..8 : corners[j].offset \notin DOMAIN dm.data
    THEN [panic |-> TRUE, corners |-> corners, wden |-> wden, rho |-> <<0, 1>>]
    ELSE [panic |-> FALSE, corners |-> corners, wden |-> wden,
          rho |-> <<corners[1].w * dm.data[corners[1].offset]
                    + corners[2].w * dm.data[corners[2].offset]
                    + corners[3].w * dm.data[corners[3].offset]
                    + corners[4].w * dm.data[corners[4].offset]
                    + corners[5].w * dm.data[corners[5].offset]
                    + corners[6].w * dm.data[corners[6].offset]
                    + corners[7].w * dm.data[corners[7].offset]
                    + corners[8].w * dm.data[corners[8].offset], wden>>]

\* the corner loops (z outermost, x innermost) from the lower corner i0 and
\* the per-axis weight numerators w0 = 1 - d and w1 = d
TrilinearCorners(dm, n, i0, w0, w1, wden) ==
    TrilinearSum(dm,
        <<TrilinearCorner(dm, n, Arr3(i0[0], i0[1], i0[2]), w0[0] * w0[1] * w0[2]),
          TrilinearCorner(dm, n, Arr3(i0[0] + 1, i0[1], i0[2]), w1[0] * w0[1] * w0[2]),
          TrilinearCorner(dm, n, Arr3(i0[0], i0[1] + 1, i0[2]), w0[0] * w1[1] * w0[2]),
          TrilinearCorner(dm, n, Arr3(i0[0] + 1, i0[1] + 1, i0[2]), w1[0] * w1[1] * w0[2]),
          TrilinearCorner(dm, n, Arr3(i0[0], i0[1], i0[2] + 1), w0[0] * w0[1] * w1[2]),
          TrilinearCorner(dm, n, Arr3(i0[0] + 1, i0[1], i0[2] + 1), w1[0] * w0[1] * w1[2]),
          TrilinearCorner(dm, n, Arr3(i0[0], i0[1] + 1, i0[2] + 1), w0[0] * w1[1] * w1[2]),
          TrilinearCorner(dm, n, Arr3(i0[0] + 1, i0[1] + 1, i0[2] + 1), w1[0] * w1[1] * w1[2])>>,
        wden)

\* density_at_point_trilinear: per corner its crystallographic index, the
\* offset read and the numerator of its weight over the common denominator
\* wden; rho is the weighted sum.  An out-of-bounds read panics.
density_at_point_trilinear(dm, cart) ==
    LET n == HdrN(dm.hdr)
        g == GridCoords(dm, cart)
        \* ix0 = gx.floor()
        i0 == Arr3(FloorRat(g[0]), FloorRat(g[1]), FloorRat(g[2]))
        \* dx = gx - ix0, as a numerator over the denominator of gx
        d == Arr3(g[0][1] - i0[0] * g[0][2], g[1][1] - i0[1] * g[1][2],
                  g[2][1] - i0[2] * g[2][2])
    IN
    IF \E f \in 0..2 : n[f] = 0
    THEN [panic |-> TRUE, corners |-> <<>>, wden |-> 1, rho |-> <<0, 1>>]
    ELSE TrilinearCorners(dm, n, i0,
            Arr3(g[0][2] - d[0], g[1][2] - d[1], g[2][2] - d[2]), d,
            g[0][2] * g[1][2] * g[2][2])

---------------------------------------------------------------------------
(* Byte sources drawn by the specifications of the binary reader.          *)

Source(len, tag, mode, n, m, cell, codes, nsymbt, nstart, origin) ==
    [len |-> len, tag |-> tag, mode |-> mode,
     nx |-> n[1], ny |-> n[2], nz |-> n[3],
     nstart |-> nstart, m |-> m, cell |-> cell,
     mapc |-> codes[1], mapr |-> codes[2], maps |-> codes[3],
     nsymbt |-> nsymbt, origin |-> origin,
     step |-> 1, swing |-> 0, scale |-> 1]

\* bytes of a file that holds header, symmetry block and all n voxels
FullLen(n, nsymbt) == HEADER_SIZE + nsymbt + 4 * Max2(n[1] * n[2] * n[3], 0)

\* the six axis arrangements (mapc, mapr, maps) a well-formed file can carry
AxisPerms == {c \in (1..3) \X (1..3) \X (1..3) : {c[1], c[2], c[3]} = 1..3}

\* file axis f holds crystallographic axis codes[f]: the sampling-interval
\* count of a crystallographic axis is the extent of the file axis holding it
IntervalsFor(n, codes) ==
    [c \in 1..3 |-> n[CHOOSE f \in 1..3 : codes[f] = c]]

\* well-formed full-cell maps of every shape and axis arrangement, with
\* unit voxel spacing
SampledSources ==
    {Source(FullLen(n, 0), TRUE, 2, n, IntervalsFor(n, codes), IntervalsFor(n, codes),
            codes, 0, <<0, 0, 0>>, <<0, 0, 0>>) :
        n \in (1..MaxN) \X (1..MaxN) \X (1..MaxN), codes \in AxisPerms}

\* nx = ny = nz = mx = my = mz = 4, identity arrangement, mode 2, cell side 4
ScenarioSource ==
    Source(FullLen(<<4, 4, 4>>, 0), TRUE, 2, <<4, 4, 4>>, <<4, 4, 4>>, <<4, 4, 4>>,
           <<1, 2, 3>>, 0, <<0, 0, 0>>, <<0, 0, 0>>)

\* lengths at which a file with this header can be cut
LenChoices(n, nsymbt) ==
    {96, 200, TAG_END, HEADER_SIZE, HEADER_SIZE + nsymbt,
     FullLen(n, nsymbt) - 4, FullLen(n, nsymbt), FullLen(n, nsymbt) + 4}

\* sources for header validation: any length, tag, mode, extent (zero and
\* negative included) and symmetry block
ValidationSources ==
    {Source(len, tag, mode, n, <<2, 2, 2>>, <<4, 4, 4>>, <<1, 2, 3>>, nsymbt,
            <<0, 0, 0>>, <<0, 0, 0>>) :
        len \in UNION {LenChoices(nn, ns) : nn \in (-1..MaxVN) \X (0..MaxVN) \X (1..MaxVN),
                                             ns \in {0, 80}},
        tag \in BOOLEAN, mode \in {0, 2},
        n \in (-1..MaxVN) \X (0..MaxVN) \X (1..MaxVN), nsymbt \in {0, 80}}

\* complete files with every combination of axis codes 0..3
AxisSources ==
    {Source(FullLen(<<3, 2, 2>>, 0), TRUE, 2, <<3, 2, 2>>, <<3, 2, 2>>, <<3, 2, 2>>,
            codes, 0, <<0, 0, 0>>, <<0, 0, 0>>) :
        codes \in (0..3) \X (0..3) \X (0..3)}

\* origin fields in 1e-5 Angstrom: zero, exactly EPS, just above EPS in
\* magnitude, and 0.5 Angstrom
OriginValues == {0, EPS, -(EPS + 1), 50000}

\* complete files with every combination of origin fields and two settings
\* of the start offsets
OriginSources ==
    {Source(FullLen(<<2, 2, 2>>, 0), TRUE, 2, <<2, 2, 2>>, <<2, 2, 2>>, <<4, 4, 4>>,
            <<1, 2, 3>>, 0, nstart, origin) :
        nstart \in {<<0, 0, 0>>, <<1, -1, 2>>},
        origin \in OriginValues \X OriginValues \X OriginValues}

---------------------------------------------------------------------------
(* Operations on a map.                                                    *)

\* DensityMap::new in either build: where the arithmetic of
\* read_header_dens overflows, a build with overflow checks panics and a
\* build without them goes on with the wrapped value
DensityMapNewOutcomes(s) ==
    LET h == read_map_header(s) IN
    {DensityMapNew(s)} \cup
        (IF h.ok /\ h.hdr.mode = 2 /\ (SeekOverflows(h.hdr.nsymbt) \/ ProductOverflows(h.hdr))
         THEN {[kind |-> "panic", err |-> "attempt to compute with overflow", map |-> NoMap]}
         ELSE {})

NoResult == [kind |-> "none", err |-> "", map |-> NoMap]
NoSample == [op |-> "none"]

\* query coordinates along an axis with m sampling intervals, in quarters
\* of a voxel: the cell boundary, a voxel centre, points inside voxels, and
\* a point outside [0, 1)
QCoords(m) == {-3, 0, 2, 3, 6, 4 * m - 1}

\* Cartesian query points for a map: coordinate h / (4 m) of the cell edge
Queries(dm) ==
    LET m == HdrM(dm.hdr) IN
    {[c \in 0..2 |-> <<h[c + 1] * dm.cell[c + 1], 4 * m[c]>>] :
        h \in QCoords(m[0]) \X QCoords(m[1]) \X QCoords(m[2])}

NoScan == [state |-> "none"]

IdleCif ==
    /\ text = <<>>
    /\ lineno = 0
    /\ scan = NoScan
    /\ given = <<>>

IdleSf ==
    /\ pc = "idle"
    /\ rows = <<>>
    /\ refls = <<>>
    /\ symops = <<>>
    /\ maxidx = <<0, 0, 0>>
    /\ dims = <<0, 0, 0>>
    /\ grid = <<>>
    /\ count = <<>>
    /\ cursor = <<0, 0>>
    /\ fftlog = <<>>

\* DensityMap::new(&mut source)
New ==
    /\ result.kind = "none"
    /\ result' \in DensityMapNewOutcomes(src)
    /\ UNCHANGED <<src, sample>>
    /\ UNCHANGED sfVars
    /\ UNCHANGED cifVars

\* map.density_at_point(cart).  Sampling never changes the map, so one call
\* per behaviour reaches every (map, point, value) combination.
Nearest ==
    /\ result.kind = "ok"
    /\ sample.op = "none"
    /\ \E cart \in Queries(result.map) :
        sample' = [op |-> "nearest", cart |-> cart,
                   out |-> density_at_point(result.map, cart)]
    /\ UNCHANGED <<src, result>>
    /\ UNCHANGED sfVars
    /\ UNCHANGED cifVars

\* map.density_at_point_trilinear(cart)
Trilinear ==
    /\ result.kind = "ok"
    /\ sample.op = "none"
    /\ \E cart \in Queries(result.map) :
        sample' = [op |-> "trilinear", cart |-> cart,
                   out |-> density_at_point_trilinear(result.map, cart)]
    /\ UNCHANGED <<src, result>>
    /\ UNCHANGED sfVars
    /\ UNCHANGED cifVars

InitRead ==
    /\ src \in ValidationSources \cup AxisSources \cup OriginSources
    /\ result = NoResult
    /\ sample = NoSample
    /\ IdleSf
    /\ IdleCif

NextRead == New

\* the binary reader on well-formed and malformed sources
SpecRead == InitRead /\ [][NextRead]_vars

InitSample ==
    /\ src \in SampledSources \cup {ScenarioSource}
    /\ result = NoResult
    /\ sample = NoSample
    /\ IdleSf
    /\ IdleCif

NextSample == New \/ Nearest \/ Trilinear

\* reading a well-formed map and sampling it
SpecSample == InitSample /\ [][NextSample]_vars

\* largest grid extent per axis of the sources whose maps are normalised
MaxSigmaN == 2
\* the values normalised lie up to MaxSigmas deviations from the mean
MaxSigmas == 2

\* maps of 0 to MaxSigmaN^3 voxels whose payload is constant, a ramp, an
\* alternation or both, in units of 1 or of 1e-6
SigmaSources ==
    {[Source(FullLen(n, 0), TRUE, 2, n, <<2, 2, 2>>, <<2, 2, 2>>, <<1, 2, 3>>, 0,
             <<0, 0, 0>>, <<0, 0, 0>>)
         EXCEPT !.step = p[1], !.swing = p[2], !.scale = p[3]] :
        n \in (0..MaxSigmaN) \X (0..MaxSigmaN) \X (0..MaxSigmaN),
        p \in {0, 1} \X {0, 2, 4} \X {1, SigmaFloorParts}}

\* the values handed to density_to_sig: up to MaxSigmas standard
\* deviations of the data, or sigmas of the map, from the mean, and 0 and 1
SigmaQueries(dm) ==
    {RatNorm(RatAdd(dm.mean, RatMul(<<k, 1>>, d))) :
        k \in (-MaxSigmas)..MaxSigmas, d \in {SqrtRat(dm.variance), Sigma(dm)}}
    \cup {<<0, 1>>, <<1, 1>>}

\* map.density_to_sig(val), for the maps whose standard deviation is
\* rational
ToSigma ==
    /\ result.kind = "ok"
    /\ sample.op = "none"
    /\ IsSquareRat(result.map.variance)
    /\ \E val \in SigmaQueries(result.map) :
        sample' = [op |-> "to_sigma", val |-> val, out |-> density_to_sig(result.map, val)]
    /\ UNCHANGED <<src, result>>
    /\ UNCHANGED sfVars
    /\ UNCHANGED cifVars

InitSigma ==
    /\ src \in SigmaSources
    /\ result = NoResult
    /\ sample = NoSample
    /\ IdleSf
    /\ IdleCif

NextSigma == New \/ ToSigma

\* reading a map and normalising values to sigma units
SpecSigma == InitSigma /\ [][NextSigma]_vars

---------------------------------------------------------------------------
(* Structure-factor reconstruction (sf_cif_to_map): grid sizing.           *)

\* err = |x * d - round(x * d)| for x = p/q, as a numerator over q
DenomErr(x, d) == Abs(x[1] * d - RoundRat(<<x[1] * d, x[2]>>) * x[2])

RECURSIVE DenomLoop(_, _, _, _)
\* the loop of denom_of_fraction from candidate d on: a candidate replaces
\* best only if its error is strictly smaller (errBest < 0 stands for
\* f64::MAX)
DenomLoop(x, d, best, errBest) ==
    IF d > 12 THEN best
    ELSE IF errBest < 0 \/ DenomErr(x, d) < errBest
         THEN DenomLoop(x, d + 1, d, DenomErr(x, d))
         ELSE DenomLoop(x, d + 1, best, errBest)

\* denom_of_fraction
denom_of_fraction(x) == DenomLoop(x, 1, 1, -1)

RECURSIVE DivideOut(_, _)
\* while x % p == 0 { x /= p }
DivideOut(x, p) == IF x % p = 0 THEN DivideOut(x \div p, p) ELSE x

\* the inner fn is_good of next_good_fft
is_good(x) == DivideOut(DivideOut(DivideOut(x, 2), 3), 5) = 1

RECURSIVE NextGoodFrom(_)
\* while !is_good(k) { k += 1 }
NextGoodFrom(k) == IF is_good(k) THEN k ELSE NextGoodFrom(k + 1)

\* next_good_fft with the search left out
next_good_fft_NoSearch(n) == Max2(n, 1)

\* next_good_fft
next_good_fft(n) == NextGoodFrom(Max2(n, 1))

RECURSIVE AxisDenom(_, _, _)
\* dx = lcm(dx, denom_of_fraction(op.t[axis])) over the first j operators
AxisDenom(ops, axis, j) ==
    IF j = 0 THEN 1
    ELSE lcm(AxisDenom(ops, axis, j - 1), denom_of_fraction(ops[j].t[axis]))

\* the size of one axis: next_good_fft(2 * max + 1), then, if that is not
\* divisible by the axis denominator d, next_good_fft of the next multiple
\* of d
AxisSize(maxi, d) ==
    LET n0 == next_good_fft(maxi * 2 + 1) IN
    IF n0 % d # 0 THEN next_good_fft(((n0 + d - 1) \div d) * d) ELSE n0

\* step 5 of sf_cif_to_map: (nx, ny, nz)
GridSize(mx, ops) ==
    <<AxisSize(mx[1], AxisDenom(ops, 0, Len(ops))),
      AxisSize(mx[2], AxisDenom(ops, 1, Len(ops))),
      AxisSize(mx[3], AxisDenom(ops, 2, Len(ops)))>>

---------------------------------------------------------------------------
(* Structure-factor reconstruction: reciprocal assembly.  A Complex32 is   *)
(* <<re, im, den>>, the value (re + i*im) / den.                           *)

CZero == <<0, 0, 1>>
CConj(a) == <<a[1], -a[2], a[3]>>
CAdd(a, b) == <<a[1] * b[3] + b[1] * a[3], a[2] * b[3] + b[2] * a[3], a[3] * b[3]>>
CMul(a, b) == <<a[1] * b[1] - a[2] * b[2], a[1] * b[2] + a[2] * b[1], a[3] * b[3]>>
CDiv(a, c) == <<a[1], a[2], a[3] * c>>
CEq(a, b) == a[1] * b[3] = b[1] * a[3] /\ a[2] * b[3] = b[2] * a[3]

\* Complex32::from_polar(amp, angle) for an angle of q quarter turns
from_polar(amp, q) ==
    LET k == q % 4 IN
    IF k = 0 THEN <<amp, 0, 1>>
    ELSE IF k = 1 THEN <<0, amp, 1>>
    ELSE IF k = 2 THEN <<-amp, 0, 1>>
    ELSE <<0, -amp, 1>>

\* the closure wrap inside idx: ((q % m) + m) as usize % n
wrap(q, n) == (RemT(q, n) + n) % n

\* the closure idx: (z * ny + y) * nx + x, X fastest
idx(h, k, l, n) == (wrap(l, n[3]) * n[2] + wrap(k, n[2])) * n[1] + wrap(h, n[1])

\* the image R h, which uses the rows of R where the code uses its columns
ReciprocalImage_NoTranspose(r, op) ==
    <<op.r[0][0] * r.h + op.r[0][1] * r.k + op.r[0][2] * r.l,
      op.r[1][0] * r.h + op.r[1][1] * r.k + op.r[1][2] * r.l,
      op.r[2][0] * r.h + op.r[2][1] * r.k + op.r[2][2] * r.l>>

\* h' = R^T h: hp = r[0][0]*h + r[1][0]*k + r[2][0]*l, and so on
ReciprocalImage(r, op) ==
    <<op.r[0][0] * r.h + op.r[1][0] * r.k + op.r[2][0] * r.l,
      op.r[0][1] * r.h + op.r[1][1] * r.k + op.r[2][1] * r.l,
      op.r[0][2] * r.h + op.r[1][2] * r.k + op.r[2][2] * r.l>>

\* phase_shift = -2 pi (h t0 + k t1 + l t2), in quarter turns; the
\* translations of the operators assembled here are multiples of 1/4
PhaseShift(r, op) ==
    -(r.h * ((4 * op.t[0][1]) \div op.t[0][2])
      + r.k * ((4 * op.t[1][1]) \div op.t[1][2])
      + r.l * ((4 * op.t[2][1]) \div op.t[2][2]))

\* fhp = fh * from_polar(1.0, phase_shift), fh = from_polar(amp, phase)
ShiftedFactor(r, op) == CMul(from_polar(r.amp, r.phase), from_polar(1, PhaseShift(r, op)))

\* the Friedel mate receives the factor itself instead of its conjugate
FriedelValue_NoConj(fhp) == fhp

\* the value added to the Friedel mate: fhp.conj()
FriedelValue(fhp) == CConj(fhp)

\* the loop body without the write to the Friedel mate
Contribution_NoMate(g, cnt, n, r, op) ==
    LET hp == ReciprocalImage(r, op)
        p == idx(hp[1], hp[2], hp[3], n)
    IN [grid |-> [g EXCEPT ![p] = CAdd(@, ShiftedFactor(r, op))],
        count |-> [cnt EXCEPT ![p] = @ + 1]]

\* the body of the loop over (reflection, operator): grid[p] += fhp;
\* grid[p_neg] += fhp.conj(); count[p] += 1; count[p_neg] += 1
Contribution(g, cnt, n, r, op) ==
    LET hp == ReciprocalImage(r, op)
        fhp == ShiftedFactor(r, op)
        p == idx(hp[1], hp[2], hp[3], n)
        pNeg == idx(-hp[1], -hp[2], -hp[3], n)
        g1 == [g EXCEPT ![p] = CAdd(@, fhp)]
        c1 == [cnt EXCEPT ![p] = @ + 1]
    IN [grid |-> [g1 EXCEPT ![pNeg] = CAdd(@, FriedelValue(fhp))],
        count |-> [c1 EXCEPT ![pNeg] = @ + 1]]

\* the grid left as accumulated, without the division by the counter
Averaged_NoDivide(g, cnt) == g

\* average duplicates: if count[i] > 0 { grid[i] /= count[i] }
Averaged(g, cnt) ==
    [i \in DOMAIN g |-> IF cnt[i] > 0 THEN CDiv(g[i], cnt[i]) ELSE g[i]]

---------------------------------------------------------------------------
(* Structure-factor reconstruction: the pipeline of sf_cif_to_map from the *)
(* reflection rows on.  pc is "collect" (step 4, the loop over rows),      *)
(* "sized" (after step 5), "assemble" (step 6, the loop over reflections   *)
(* and operators), "averaged" (after the averaging loop), "fft_x", "fft_y" *)
(* and "fft_z" (step 7, the three passes), "real" (before step 8) and      *)
(* "done"; fftlog lists the steps taken from the conjugation on.           *)

\* most reflections in a source of the assembly specification
MaxRows == 2
\* most symmetry operators in a source of the assembly specification
MaxOps == 2
\* largest Miller index in a source of the grid-sizer specification
MaxMiller == 12
\* most symmetry operators in a source of the grid-sizer specification
MaxSizerOps == 2

Mat3(r0, r1, r2) == Arr3(Arr3(r0[1], r0[2], r0[3]), Arr3(r1[1], r1[2], r1[3]),
                         Arr3(r2[1], r2[2], r2[3]))

\* a SymOp { r, t }: x' = R x + t
SymOp(r0, r1, r2, t) == [r |-> Mat3(r0, r1, r2), t |-> Arr3(t[1], t[2], t[3])]

\* "x,y,z"
OpIdentity == SymOp(<<1, 0, 0>>, <<0, 1, 0>>, <<0, 0, 1>>, <<<<0, 1>>, <<0, 1>>, <<0, 1>>>>)
\* "-x,-y,z"
OpTwofold == SymOp(<<-1, 0, 0>>, <<0, -1, 0>>, <<0, 0, 1>>, <<<<0, 1>>, <<0, 1>>, <<0, 1>>>>)
\* "-y,x,z+1/4"
OpFourfoldScrew == SymOp(<<0, -1, 0>>, <<1, 0, 0>>, <<0, 0, 1>>, <<<<0, 1>>, <<0, 1>>, <<1, 4>>>>)
\* "-x,y+1/2,-z"
OpTwofoldScrew == SymOp(<<-1, 0, 0>>, <<0, 1, 0>>, <<0, 0, -1>>, <<<<0, 1>>, <<1, 2>>, <<0, 1>>>>)
\* "x+1/2,y+1/2,z"
OpCentring == SymOp(<<1, 0, 0>>, <<0, 1, 0>>, <<0, 0, 1>>, <<<<1, 2>>, <<1, 2>>, <<0, 1>>>>)
\* "-y,x-y,z+1/3"
OpThreefoldScrew == SymOp(<<0, -1, 0>>, <<1, -1, 0>>, <<0, 0, 1>>, <<<<0, 1>>, <<0, 1>>, <<1, 3>>>>)
\* "x-y,x,z+5/6"
OpSixfoldScrew == SymOp(<<1, -1, 0>>, <<1, 0, 0>>, <<0, 0, 1>>, <<<<0, 1>>, <<0, 1>>, <<5, 6>>>>)
\* "x+2/3,y+1/3,z+1/3"
OpRhombohedral == SymOp(<<1, 0, 0>>, <<0, 1, 0>>, <<0, 0, 1>>, <<<<2, 3>>, <<1, 3>>, <<1, 3>>>>)
\* "-y+1/4,x+3/4,z+1/4"
OpQuarter == SymOp(<<0, -1, 0>>, <<1, 0, 0>>, <<0, 0, 1>>, <<<<1, 4>>, <<3, 4>>, <<1, 4>>>>)

\* operators whose translations are multiples of 1/4
AsmOps == {OpIdentity, OpTwofold, OpFourfoldScrew, OpTwofoldScrew}

SizerOps == {OpIdentity, OpTwofoldScrew, OpCentring, OpThreefoldScrew, OpFourfoldScrew,
             OpSixfoldScrew, OpRhombohedral, OpQuarter}

\* the f32 a token parses to: <<v>> for the finite value v, <<>> for a
\* non-finite one ("nan", "inf")
Finite(v) == <<v>>
NonFinite == <<>>
IsFinite(x) == Len(x) = 1

\* the tokens of a loop row: a number (a phase is in quarter turns), a
\* token that parses to a non-finite f32 ("nan", "inf"), and a token that
\* is no number ("?", ".")
Num(v) == <<"num", v>>
NanTok == <<"nan", 0>>
TextTok == <<"text", 0>>

\* row.get(col)
Get(row, col) == IF col < Len(row) THEN Some(row[col + 1]) ELSE None

\* .and_then(|s| s.parse::<i32>().ok()).unwrap_or(0)
ParseI32Or0(cellOpt) ==
    IF IsSome(cellOpt) /\ cellOpt[1][1] = "num" THEN cellOpt[1][2] ELSE 0

\* .and_then(|s| s.parse::<f32>().ok()).unwrap_or(0.0)
ParseF32Or0(cellOpt) ==
    IF IsSome(cellOpt) /\ cellOpt[1][1] = "num" THEN Finite(cellOpt[1][2])
    ELSE IF IsSome(cellOpt) /\ cellOpt[1][1] = "nan" THEN NonFinite
    ELSE Finite(0)

\* the column indices hcol, kcol, lcol, fcol, phcol
Cols(h, k, l, f, ph) == [h |-> h, k |-> k, l |-> l, f |-> f, ph |-> ph]

\* a row of the columns h, k, l, amplitude, phase in this order
Row(h, k, l, amp, phase) == <<Num(h), Num(k), Num(l), Num(amp), Num(phase)>>

AsmRows ==
    {Row(1, 0, 0, 2, 0), Row(0, 0, 0, 3, 0), Row(-1, 0, 0, 1, 1), Row(0, 1, -1, 1, 3),
     Row(0, 0, 0, 1, 1),
     [Row(1, 1, 0, 0, 0) EXCEPT ![4] = NanTok]}

SeqsUpTo(S, n) == UNION {[1..j -> S] : j \in 0..n}

\* one iteration of `for row in &rows`: a row with finite amplitude and
\* phase is pushed and raises hmax, kmax, lmax
CollectRow ==
    /\ pc = "collect"
    /\ cursor[1] <= Len(rows)
    /\ LET row == rows[cursor[1]]
           h == ParseI32Or0(Get(row, scan.cols.h))
           k == ParseI32Or0(Get(row, scan.cols.k))
           l == ParseI32Or0(Get(row, scan.cols.l))
           amp == ParseF32Or0(Get(row, scan.cols.f))
           phi == ParseF32Or0(Get(row, scan.cols.ph))
       IN
        IF IsFinite(amp) /\ IsFinite(phi)
        THEN /\ refls' = Append(refls, [h |-> h, k |-> k, l |-> l,
                                         amp |-> amp[1], phase |-> phi[1]])
             /\ maxidx' = <<Max2(maxidx[1], Abs(h)), Max2(maxidx[2], Abs(k)),
                            Max2(maxidx[3], Abs(l))>>
        ELSE UNCHANGED <<refls, maxidx>>
    /\ cursor' = <<cursor[1] + 1, 1>>
    /\ UNCHANGED <<pc, rows, symops, dims, grid, count, fftlog>>
    /\ UNCHANGED mapVars
    /\ UNCHANGED cifVars

\* step 5: choose the reciprocal grid size
SizeGrid ==
    /\ pc = "collect"
    /\ cursor[1] > Len(rows)
    /\ dims' = GridSize(maxidx, symops)
    /\ pc' = "sized"
    /\ UNCHANGED <<rows, refls, symops, maxidx, grid, count, cursor, fftlog>>
    /\ UNCHANGED mapVars
    /\ UNCHANGED cifVars

\* grid = vec![0; nx*ny*nz]; count = vec![0; nx*ny*nz]
BeginAssembly ==
    /\ pc = "sized"
    /\ grid' = [i \in 0..(dims[1] * dims[2] * dims[3] - 1) |-> CZero]
    /\ count' = [i \in 0..(dims[1] * dims[2] * dims[3] - 1) |-> 0]
    /\ cursor' = <<1, 1>>
    /\ pc' = "assemble"
    /\ UNCHANGED <<rows, refls, symops, maxidx, dims, fftlog>>
    /\ UNCHANGED mapVars
    /\ UNCHANGED cifVars

\* one iteration of `for op in &symops` inside `for r in &refls`
Contribute ==
    /\ pc = "assemble"
    /\ cursor[1] <= Len(refls)
    /\ LET c == Contribution(grid, count, dims, refls[cursor[1]], symops[cursor[2]]) IN
        /\ grid' = c.grid
        /\ count' = c.count
    /\ cursor' = IF cursor[2] < Len(symops) THEN <<cursor[1], cursor[2] + 1>>
                 ELSE <<cursor[1] + 1, 1>>
    /\ UNCHANGED <<pc, rows, refls, symops, maxidx, dims, fftlog>>
    /\ UNCHANGED mapVars
    /\ UNCHANGED cifVars

\* the averaging loop over the whole grid
Average ==
    /\ pc = "assemble"
    /\ cursor[1] > Len(refls)
    /\ grid' = Averaged(grid, count)
    /\ pc' = "averaged"
    /\ UNCHANGED <<rows, refls, symops, maxidx, dims, count, cursor, fftlog>>
    /\ UNCHANGED mapVars
    /\ UNCHANGED cifVars

\* a complex value in lowest terms
CNorm(a) ==
    LET g == gcd(gcd(Abs(a[1]), Abs(a[2])), a[3]) IN
    IF g = 0 THEN a ELSE <<a[1] \div g, a[2] \div g, a[3] \div g>>

\* the lengths for which e^(2 pi i / n) is 1, -1 or i, so that the
\* transform of a line is exact in this arithmetic
ExactLength(n) == n \in {1, 2, 4}

\* sum over k of line[k] * e^(2 pi i j k / n), over the common denominator
\* den of the line
DftSum(line, n, j, den) ==
    LET term == [k \in 0..(n - 1) |->
                    CMul(line[k], from_polar(1, (4 \div n) * j * k))]
        re == SumOf([k \in 0..(n - 1) |-> term[k][1] * (den \div term[k][3])], 0)
        im == SumOf([k \in 0..(n - 1) |-> term[k][2] * (den \div term[k][3])], 0)
    IN CNorm(<<re, im, den>>)

\* fft.process of an inverse plan of length n: the unnormalised inverse
\* discrete Fourier transform of one line
InverseDft(line, n) ==
    LET den == LcmOf([k \in 0..(n - 1) |-> line[k][3]], 0)
    IN [j \in 0..(n - 1) |-> DftSum(line, n, j, den)]

\* lines along Y that all start in the first column of their section
LineCells_SharedColumn(axis, j, n) ==
    IF axis = "x" THEN [i \in 0..(n[1] - 1) |-> j * n[1] + i]
    ELSE IF axis = "y"
         THEN [i \in 0..(n[2] - 1) |-> ((j \div n[1]) * n[2] + i) * n[1]]
    ELSE [i \in 0..(n[3] - 1) |-> (i * n[2] + (j \div n[1])) * n[1] + (j % n[1])]

\* the grid offsets of line j of an axis pass, in the order of the line
LineCells(axis, j, n) ==
    IF axis = "x" THEN [i \in 0..(n[1] - 1) |-> j * n[1] + i]
    ELSE IF axis = "y"
         THEN [i \in 0..(n[2] - 1) |-> ((j \div n[1]) * n[2] + i) * n[1] + (j % n[1])]
    ELSE [i \in 0..(n[3] - 1) |-> (i * n[2] + (j \div n[1])) * n[1] + (j % n[1])]

\* the number of lines of an axis pass
LineCount(axis, n) ==
    IF axis = "x" THEN n[2] * n[3] ELSE IF axis = "y" THEN n[1] * n[3] ELSE n[1] * n[2]

AxisLength(axis, n) == IF axis = "x" THEN n[1] ELSE IF axis = "y" THEN n[2] ELSE n[3]

\* gather line j, transform it, scatter it back
TransformLine(g, axis, j, n) ==
    LET cells == LineCells(axis, j, n)
        len == AxisLength(axis, n)
        out == InverseDft([i \in 0..(len - 1) |-> g[cells[i]]], len)
    IN [c \in DOMAIN g |->
           IF \E i \in 0..(len - 1) : cells[i] = c
           THEN out[CHOOSE i \in 0..(len - 1) : cells[i] = c]
           ELSE g[c]]

\* for v in &mut grid { *v = v.conj() }
Conjugate ==
    /\ pc = "averaged"
    /\ grid' = [i \in DOMAIN grid |-> CConj(grid[i])]
    /\ fftlog' = Append(fftlog, <<"conj", 0>>)
    /\ pc' = "fft_x"
    /\ cursor' = <<0, 0>>
    /\ UNCHANGED <<rows, refls, symops, maxidx, dims, count>>
    /\ UNCHANGED mapVars
    /\ UNCHANGED cifVars

\* a pass that hands over to the next one before its last line
FftLine_EarlyHandOver(axis, here, next) ==
    /\ pc = here
    /\ ExactLength(AxisLength(axis, dims))
    /\ IF cursor[1] + 1 < LineCount(axis, dims)
       THEN /\ grid' = TransformLine(grid, axis, cursor[1], dims)
            /\ fftlog' = Append(fftlog, <<axis, cursor[1]>>)
            /\ cursor' = <<cursor[1] + 1, 0>>
            /\ pc' = here
       ELSE /\ cursor' = <<0, 0>>
            /\ pc' = next
            /\ UNCHANGED <<grid, fftlog>>
    /\ UNCHANGED <<rows, refls, symops, maxidx, dims, count>>
    /\ UNCHANGED mapVars
    /\ UNCHANGED cifVars

\* one line of the pass along axis, the passes following each other as
\* the three loops do
FftLine(axis, here, next) ==
    /\ pc = here
    /\ ExactLength(AxisLength(axis, dims))
    /\ grid' = TransformLine(grid, axis, cursor[1], dims)
    /\ fftlog' = Append(fftlog, <<axis, cursor[1]>>)
    /\ IF cursor[1] + 1 < LineCount(axis, dims)
       THEN /\ cursor' = <<cursor[1] + 1, 0>>
            /\ pc' = here
       ELSE /\ cursor' = <<0, 0>>
            /\ pc' = next
    /\ UNCHANGED <<rows, refls, symops, maxidx, dims, count>>
    /\ UNCHANGED mapVars
    /\ UNCHANGED cifVars

\* X dimension: one fft_x.process(slice) for a (y, z)
FftX == FftLine("x", "fft_x", "fft_y")
\* Y dimension: gather, fft_y.process, scatter for one (x, z)
FftY == FftLine("y", "fft_y", "fft_z")
\* Z dimension: gather, fft_z.process, scatter for one (x, y)
FftZ == FftLine("z", "fft_z", "real")

\* the sum of the rationals f[i]
RatSum(f) ==
    LET den == LcmOf([i \in DOMAIN f |-> f[i][2]], 0)
    IN <<SumOf([i \in DOMAIN f |-> f[i][1] * (den \div f[i][2])], 0), den>>

\* a header that names the axes in the order Y, X, Z
SfHeader_ColumnsSwapped(n, cell) ==
    [nx |-> n[1], ny |-> n[2], nz |-> n[3], mode |-> 2,
     nxstart |-> 0, nystart |-> 0, nzstart |-> 0,
     mx |-> n[1], my |-> n[2], mz |-> n[3],
     cell |-> cell,
     mapc |-> 2, mapr |-> 1, maps |-> 3,
     nsymbt |-> 0,
     xorigin |-> Some(0), yorigin |-> Some(0), zorigin |-> Some(0)]

\* the header sf_cif_to_map writes for its grid
SfHeader(n, cell) ==
    [nx |-> n[1], ny |-> n[2], nz |-> n[3], mode |-> 2,
     nxstart |-> 0, nystart |-> 0, nzstart |-> 0,
     mx |-> n[1], my |-> n[2], mz |-> n[3],
     cell |-> cell,
     mapc |-> 1, mapr |-> 2, maps |-> 3,
     nsymbt |-> 0,
     xorigin |-> Some(0), yorigin |-> Some(0), zorigin |-> Some(0)]

\* the cells UnitCell::new inverts in this model: orthogonal ones with
\* positive lengths
UsableCell(cell) ==
    /\ \A i \in 1..3 : cell[i] > 0
    /\ \A i \in 4..6 : cell[i] = 90

\* the DensityMap of step 9
SfMap(g, n, cell) ==
    LET nxyz == n[1] * n[2] * n[3]
        data == [i \in DOMAIN g |-> <<g[i][1], g[i][3] * nxyz>>]
        total == RatSum(data)
        hdr == SfHeader(n, cell)
    IN [hdr |-> hdr, cell |-> cell, origin_frac |-> get_origin_frac(hdr),
        perm_f2c |-> PermF2C(hdr), perm_c2f |-> PermC2F(PermF2C(hdr)),
        data |-> data, mean |-> <<total[1], total[2] * nxyz>>]

\* steps 8 and 9: the real part divided by nx*ny*nz, the header and the
\* DensityMap.  For a cell that is not orthogonal with positive lengths the
\* matrix handed to Mat3::inverse holds zeros or NaN, and whether inverse
\* returns None (the expect panics) or a matrix is outside this code
BuildMap ==
    /\ pc = "real"
    /\ fftlog' = Append(fftlog, <<"real", 0>>)
    /\ pc' = "done"
    /\ \/ result' = [kind |-> "ok", err |-> "", map |-> SfMap(grid, dims, scan.cell)]
       \/ /\ ~UsableCell(scan.cell)
          /\ result' = [kind |-> "panic", err |-> "unit-cell matrix is singular", map |-> NoMap]
    /\ UNCHANGED <<rows, refls, symops, maxidx, dims, grid, count, cursor>>
    /\ UNCHANGED <<src, sample>>
    /\ UNCHANGED cifVars

\* the required columns have been found in the order h, k, l, F, phase
ColumnsFound ==
    /\ text = <<>>
    /\ lineno = 0
    /\ given = <<>>
    /\ scan = [state |-> "columns", cols |-> Cols(0, 1, 2, 3, 4),
               cell |-> <<4, 4, 4, 90, 90, 90>>, ispg |-> 1]

IdleMap ==
    /\ src = [len |-> 0]
    /\ result = NoResult
    /\ sample = NoSample

StartSf ==
    /\ pc = "collect"
    /\ refls = <<>>
    /\ maxidx = <<0, 0, 0>>
    /\ dims = <<0, 0, 0>>
    /\ grid = <<>>
    /\ count = <<>>
    /\ cursor = <<1, 1>>
    /\ fftlog = <<>>

InitSizer ==
    /\ IdleMap
    /\ ColumnsFound
    /\ StartSf
    /\ rows \in {<<>>} \cup
                {<<Row(h, k, l, 1, 0)>> : h \in 0..MaxMiller, k \in 0..MaxMiller, l \in 0..1}
    /\ symops \in SeqsUpTo(SizerOps, MaxSizerOps) \ {<<>>}

NextSizer == CollectRow \/ SizeGrid

\* reflection collection and grid sizing
SpecSizer == InitSizer /\ [][NextSizer]_vars

InitSf ==
    /\ IdleMap
    /\ ColumnsFound
    /\ StartSf
    /\ rows \in SeqsUpTo(AsmRows, MaxRows)
    /\ symops \in SeqsUpTo(AsmOps, MaxOps) \ {<<>>}

NextSf == CollectRow \/ SizeGrid \/ BeginAssembly \/ Contribute \/ Average

\* reflection collection, grid sizing, reciprocal assembly and averaging
SpecSf == InitSf /\ [][NextSf]_vars

\* most reflections in a source of the Fourier specification
MaxFftRows == 2
\* most symmetry operators in a source of the Fourier specification
MaxFftOps == 2

\* "x+1/2,y+1/2,z+1/2"
OpBodyCentring == SymOp(<<1, 0, 0>>, <<0, 1, 0>>, <<0, 0, 1>>, <<<<1, 2>>, <<1, 2>>, <<1, 2>>>>)

FftOps == {OpIdentity, OpBodyCentring, OpFourfoldScrew}
FftRows == {Row(1, 0, 0, 2, 0), Row(0, 0, 0, 3, 0), Row(0, 1, -1, 1, 3)}

RECURSIVE RowsMax(_, _)
\* the largest magnitude in column col of rows of numbers
RowsMax(rs, col) ==
    IF rs = <<>> THEN 0 ELSE Max2(Abs(Head(rs)[col][2]), RowsMax(Tail(rs), col))

\* the grid the sizer chooses for these rows and operators
GridFor(rs, ops) == GridSize(<<RowsMax(rs, 1), RowsMax(rs, 2), RowsMax(rs, 3)>>, ops)

\* sources whose grid has extents 1, 2 or 4 on every axis
InitFft ==
    /\ IdleMap
    /\ ColumnsFound
    /\ StartSf
    /\ rows \in SeqsUpTo(FftRows, MaxFftRows)
    /\ symops \in SeqsUpTo(FftOps, MaxFftOps) \ {<<>>}
    /\ \A a \in 1..3 : ExactLength(GridFor(rows, symops)[a])

NextFft ==
    \/ CollectRow \/ SizeGrid \/ BeginAssembly \/ Contribute \/ Average
    \/ Conjugate \/ FftX \/ FftY \/ FftZ \/ BuildMap

\* the whole reconstruction from the reflection rows to the DensityMap
SpecFft == InitFft /\ [][NextFft]_vars

---------------------------------------------------------------------------
(* Symmetry-operator strings (parse_symop_xyz).  A string is a sequence of *)
(* one-character strings.                                                  *)

\* most signed terms in one axis expression of a generated operator string
MaxTerms == 2

Digits == {"0", "1", "2", "3", "4", "5", "6", "7", "8", "9"}

DigitVal(c) ==
    CASE c = "0" -> 0 [] c = "1" -> 1 [] c = "2" -> 2 [] c = "3" -> 3 [] c = "4" -> 4
      [] c = "5" -> 5 [] c = "6" -> 6 [] c = "7" -> 7 [] c = "8" -> 8 [] c = "9" -> 9

RECURSIVE IndexOf(_, _, _)
\* the first position >= i of character c in s, 0 if there is none
IndexOf(s, c, i) ==
    IF i > Len(s) THEN 0 ELSE IF s[i] = c THEN i ELSE IndexOf(s, c, i + 1)

RECURSIVE Split(_, _)
\* str::split(c): the pieces between occurrences of c, empty ones included
Split(s, c) ==
    LET i == IndexOf(s, c, 1) IN
    IF i = 0 THEN <<s>>
    ELSE <<SubSeq(s, 1, i - 1)>> \o Split(SubSeq(s, i + 1, Len(s)), c)

\* term.trim().replace(" ", "")
RemoveSpaces(s) == SelectSeq(s, LAMBDA c : c # " ")

RECURSIVE UnsignedDecimal(_, _, _, _, _)
\* the digits and at most one point of s from position i on, as a rational;
\* None if another character occurs or there is no digit
UnsignedDecimal(s, i, num, den, seenPoint) ==
    IF i > Len(s) THEN Some(<<num, den>>)
    ELSE IF s[i] \in Digits
         THEN UnsignedDecimal(s, i + 1, 10 * num + DigitVal(s[i]),
                              IF seenPoint THEN 10 * den ELSE den, seenPoint)
    ELSE IF s[i] = "." /\ ~seenPoint THEN UnsignedDecimal(s, i + 1, num, den, TRUE)
    ELSE None

\* str::parse::<f64>() on a string of signs, digits, points and other
\* characters: an optional sign, then digits with an optional point and at
\* least one digit
ParseF64(s) ==
    LET signed == Len(s) > 0 /\ s[1] \in {"+", "-"}
        body == IF signed THEN SubSeq(s, 2, Len(s)) ELSE s
        v == IF \E i \in 1..Len(body) : body[i] \in Digits
             THEN UnsignedDecimal(body, 1, 0, 1, FALSE) ELSE None
    IN IF ~IsSome(v) THEN None
       ELSE IF signed /\ s[1] = "-" THEN Some(<<-v[1][1], v[1][2]>>) ELSE v

ParseF64Or(s, default) == LET v == ParseF64(s) IN IF IsSome(v) THEN v[1] ELSE default

RECURSIVE TokenizeFrom(_, _, _, _)
\* the tokenizer loop: a '+' or '-' closes the current part and starts the
\* next one; the last part is pushed if it is not empty
TokenizeFrom(s, i, cur, parts) ==
    IF i > Len(s) THEN (IF cur # <<>> THEN Append(parts, cur) ELSE parts)
    ELSE IF s[i] \in {"+", "-"}
         THEN TokenizeFrom(s, i + 1, <<s[i]>>, IF cur # <<>> THEN Append(parts, cur) ELSE parts)
    ELSE TokenizeFrom(s, i + 1, Append(cur, s[i]), parts)

\* a part read as a plain number, without the split at '/'
ConstantOf_NoFraction(part) == ParseF64Or(part, <<0, 1>>)

\* the value of a part that is not a signed x, y or z: n/d or a number,
\* with unparsable pieces replaced by 0.0 (and by 1.0 for the divisor)
ConstantOf(part) ==
    LET i == IndexOf(part, "/", 1) IN
    IF i > 0
    THEN RatDiv(ParseF64Or(SubSeq(part, 1, i - 1), <<0, 1>>),
                ParseF64Or(SubSeq(part, i + 1, Len(part)), <<1, 1>>))
    ELSE ParseF64Or(part, <<0, 1>>)

RECURSIVE FoldParts(_, _, _, _)
\* `for p in parts`: the coefficients of x, y, z (a 1-based triple) and the
\* shift of one axis expression
FoldParts(parts, i, coeff, shift) ==
    IF i > Len(parts) THEN [coeff |-> coeff, shift |-> shift]
    ELSE LET part == parts[i] IN
         IF part \in {<<"x">>, <<"+", "x">>} THEN FoldParts(parts, i + 1, [coeff EXCEPT ![1] = @ + 1], shift)
         ELSE IF part = <<"-", "x">> THEN FoldParts(parts, i + 1, [coeff EXCEPT ![1] = @ - 1], shift)
         ELSE IF part \in {<<"y">>, <<"+", "y">>} THEN FoldParts(parts, i + 1, [coeff EXCEPT ![2] = @ + 1], shift)
         ELSE IF part = <<"-", "y">> THEN FoldParts(parts, i + 1, [coeff EXCEPT ![2] = @ - 1], shift)
         ELSE IF part \in {<<"z">>, <<"+", "z">>} THEN FoldParts(parts, i + 1, [coeff EXCEPT ![3] = @ + 1], shift)
         ELSE IF part = <<"-", "z">> THEN FoldParts(parts, i + 1, [coeff EXCEPT ![3] = @ - 1], shift)
         ELSE FoldParts(parts, i + 1, coeff, RatAdd(shift, ConstantOf(part)))

\* one iteration of `for (axis_i, term) in expr.trim().split(',')`
ParseAxis(term) ==
    FoldParts(TokenizeFrom(RemoveSpaces(term), 1, <<>>, <<>>), 1, <<0, 0, 0>>, <<0, 1>>)

SymOpPanic == [panic |-> TRUE]

\* parse_symop_xyz: rows and shifts of the comma-separated axis
\* expressions; a fourth expression indexes r[3] and panics
parse_symop_xyz(e) ==
    LET terms == Split(e, ",")
        ax(i) == IF i <= Len(terms) THEN ParseAxis(terms[i])
                 ELSE [coeff |-> <<0, 0, 0>>, shift |-> <<0, 1>>]
    IN IF Len(terms) > 3 THEN SymOpPanic
       ELSE SymOp(ax(1).coeff, ax(2).coeff, ax(3).coeff, <<ax(1).shift, ax(2).shift, ax(3).shift>>)

---------------------------------------------------------------------------
(* The mmCIF text.  A line, after trim(), is a record: kind "loop" for     *)
(* loop_, "tag" for a line starting with '_' (name is its first token, val *)
(* what its last token parses to as a number), "data" for any other        *)
(* non-empty line (chars are its characters, toks its whitespace-separated *)
(* tokens) and "empty".                                                    *)

Line(kind, name, val, chars, toks) ==
    [kind |-> kind, name |-> name, val |-> val, chars |-> chars, toks |-> toks]

LoopLine == Line("loop", "", None, <<>>, <<>>)
EmptyLine == Line("empty", "", None, <<>>, <<>>)
\* a tag line without a value, as in a loop header
TagLine(name) == Line("tag", name, None, <<>>, <<>>)
\* a tag line with a numeric value, as in "_cell.length_a 10"
TagValueLine(name, v) == Line("tag", name, Some(v), <<>>, <<>>)
\* a data line that is one token of the given characters
OpLine(chars) == Line("data", "", None, chars, <<chars>>)
\* a data line of several tokens without the letters x, y, z
RowLine(toks) == Line("data", "", None, <<>>, toks)

SymopTags == {"_space_group_symop.operation_xyz", "_symmetry_equiv.pos_as_xyz"}
CellTags ==
    <<"_cell.length_a", "_cell.length_b", "_cell.length_c",
      "_cell.angle_alpha", "_cell.angle_beta", "_cell.angle_gamma">>
SpaceGroupTags == {"_space_group.IT_number", "_symmetry.Int_Tables_number"}

\* str::trim_matches(c): every leading and trailing c removed
RECURSIVE TrimMatches(_, _)
TrimMatches(str, c) ==
    IF str = <<>> THEN str
    ELSE IF Head(str) = c THEN TrimMatches(Tail(str), c)
    ELSE IF str[Len(str)] = c THEN TrimMatches(SubSeq(str, 1, Len(str) - 1), c)
    ELSE str

\* l.split_whitespace().last().unwrap().parse().unwrap_or(0.0)
LastTokenOr(line, default) == IF IsSome(line.val) THEN line.val[1] ELSE default

\* the locals of sf_cif_to_map before its loop over the lines (in_flag is
\* in_refln); col_idx maps a column name to its index
StartReflnScan(cell, ispg) ==
    [state |-> "refln", cell |-> cell, ispg |-> ispg, in_loop |-> FALSE, in_flag |-> FALSE,
     col_idx |-> <<>>, rows |-> <<>>]

\* the names that start with "_refln."
ReflnTags ==
    {"_refln.index_h", "_refln.h", "_refln.index_k", "_refln.k", "_refln.index_l", "_refln.l",
     "_refln.pdbx_FWT", "_refln.FWT", "_refln.pdbx_PHWT", "_refln.PHWT", "_refln.status"}

\* col_idx.insert(name, col_idx.len())
Insert(col_idx, name) ==
    [n \in (DOMAIN col_idx) \cup {name} |->
        IF n = name THEN Cardinality(DOMAIN col_idx) ELSE col_idx[n]]

\* one iteration of `for line in txt.lines()` of sf_cif_to_map
ReflnScanStep(sc, l) ==
    IF l.kind = "loop" THEN [sc EXCEPT !.in_loop = TRUE, !.in_flag = FALSE, !.rows = <<>>]
    ELSE IF sc.in_loop /\ l.kind = "tag" /\ l.name \in ReflnTags
         THEN [sc EXCEPT !.in_flag = TRUE, !.col_idx = Insert(@, l.name)]
    ELSE IF sc.in_loop /\ sc.in_flag
         THEN IF l.kind = "tag" THEN [sc EXCEPT !.in_loop = FALSE, !.in_flag = FALSE]
              ELSE IF l.kind = "data" /\ l.toks # <<>> THEN [sc EXCEPT !.rows = Append(@, l.toks)]
              ELSE sc
    ELSE sc

\* one line of the reflection-loop scan
ScanReflnLine ==
    /\ pc = "refln"
    /\ lineno <= Len(text)
    /\ scan' = ReflnScanStep(scan, text[lineno])
    /\ lineno' = lineno + 1
    /\ UNCHANGED <<text, given>>
    /\ UNCHANGED sfVars
    /\ UNCHANGED mapVars

\* a lookup under the primary name only
Lookup_NoAlias(col_idx, primary, alias) ==
    IF primary \in DOMAIN col_idx THEN Some(col_idx[primary]) ELSE None

\* col_idx.get(primary).or_else(|| col_idx.get(alias))
Lookup(col_idx, primary, alias) ==
    IF primary \in DOMAIN col_idx THEN Some(col_idx[primary])
    ELSE IF alias \in DOMAIN col_idx THEN Some(col_idx[alias])
    ELSE None

ErrNoH == "CIF missing _refln.index_h"
ErrNoK == "CIF missing _refln.index_k"
ErrNoL == "CIF missing _refln.index_l"
ErrNoF == "CIF missing 2Fo-Fc amplitudes (pdbx_FWT/FWT)"
ErrNoPh == "CIF missing 2Fo-Fc phases (pdbx_PHWT/PHWT)"

\* the five lookups in their order; the first one that fails returns its
\* error
RequiredColumns(col_idx) ==
    LET h == Lookup(col_idx, "_refln.index_h", "_refln.h")
        k == Lookup(col_idx, "_refln.index_k", "_refln.k")
        l == Lookup(col_idx, "_refln.index_l", "_refln.l")
        f == Lookup(col_idx, "_refln.pdbx_FWT", "_refln.FWT")
        ph == Lookup(col_idx, "_refln.pdbx_PHWT", "_refln.PHWT")
    IN IF ~IsSome(h) THEN [err |-> ErrNoH]
       ELSE IF ~IsSome(k) THEN [err |-> ErrNoK]
       ELSE IF ~IsSome(l) THEN [err |-> ErrNoL]
       ELSE IF ~IsSome(f) THEN [err |-> ErrNoF]
       ELSE IF ~IsSome(ph) THEN [err |-> ErrNoPh]
       ELSE [err |-> "", cols |-> Cols(h[1], k[1], l[1], f[1], ph[1])]

\* the required columns: a missing one returns Err from sf_cif_to_map,
\* otherwise the rows go on to the collection of the reflections
RequireColumns ==
    /\ pc = "refln"
    /\ lineno > Len(text)
    /\ LET rc == RequiredColumns(scan.col_idx) IN
        IF rc.err # ""
        THEN /\ pc' = "error"
             /\ result' = [kind |-> "err", err |-> rc.err, map |-> NoMap]
             /\ UNCHANGED <<rows, scan, cursor>>
        ELSE /\ pc' = "collect"
             /\ rows' = scan.rows
             /\ scan' = [state |-> "columns", cols |-> rc.cols, cell |-> scan.cell,
                         ispg |-> scan.ispg]
             /\ cursor' = <<1, 1>>
             /\ UNCHANGED result
    /\ UNCHANGED <<text, lineno, given>>
    /\ UNCHANGED <<refls, symops, maxidx, dims, grid, count, fftlog>>
    /\ UNCHANGED <<src, sample>>

\* the locals of parse_mmcif_symops_and_cell before its loop
StartSymScan ==
    [state |-> "symops", in_loop |-> FALSE, in_flag |-> FALSE, ops |-> <<>>,
     cell |-> <<0, 0, 0, 0, 0, 0>>, ispg |-> 1, panic |-> FALSE]

\* one iteration of `for line in cif_text.lines()` of
\* parse_mmcif_symops_and_cell on line l with locals sc (in_flag is in_ops)
SymScanStep(sc, l) ==
    LET cellSet == [i \in 1..6 |->
                       IF l.kind = "tag" /\ l.name = CellTags[i] THEN LastTokenOr(l, 0)
                       ELSE sc.cell[i]]
        sc1 == [sc EXCEPT !.cell = cellSet,
                          !.ispg = IF l.kind = "tag" /\ l.name \in SpaceGroupTags
                                   THEN LastTokenOr(l, 1) ELSE @]
    IN IF l.kind = "loop" THEN [sc1 EXCEPT !.in_loop = TRUE, !.in_flag = FALSE]
       ELSE IF sc1.in_loop /\ l.kind = "tag" /\ l.name \in SymopTags
            THEN [sc1 EXCEPT !.in_flag = TRUE]
       ELSE IF sc1.in_loop /\ l.kind = "tag" THEN [sc1 EXCEPT !.in_flag = FALSE]
       ELSE IF sc1.in_loop /\ sc1.in_flag /\ l.kind = "data"
            THEN LET trimmed == TrimMatches(TrimMatches(l.chars, "'"), "\"") IN
                 IF \E i \in 1..Len(trimmed) : trimmed[i] \in {"x", "y", "z"}
                 THEN LET op == parse_symop_xyz(trimmed) IN
                      IF op = SymOpPanic THEN [sc1 EXCEPT !.panic = TRUE]
                      ELSE [sc1 EXCEPT !.ops = Append(@, op)]
                 ELSE sc1
       ELSE sc1

\* one line of the symmetry and cell scan
ScanSymLine ==
    /\ pc = "symops"
    /\ ~scan.panic
    /\ lineno <= Len(text)
    /\ scan' = SymScanStep(scan, text[lineno])
    /\ lineno' = lineno + 1
    /\ UNCHANGED <<text, given>>
    /\ UNCHANGED sfVars
    /\ UNCHANGED mapVars

\* the operators are returned as they were pushed
OpsOrIdentity_NoFallback(ops) == ops

\* if ops.is_empty() { ops.push(identity) }
OpsOrIdentity(ops) == IF ops = <<>> THEN <<OpIdentity>> ELSE ops

\* the end of parse_mmcif_symops_and_cell: the identity fallback and the
\* return into sf_cif_to_map
FinishSymScan ==
    /\ pc = "symops"
    /\ ~scan.panic
    /\ lineno > Len(text)
    /\ symops' = OpsOrIdentity(scan.ops)
    /\ pc' = "refln"
    /\ lineno' = 1
    /\ scan' = StartReflnScan(scan.cell, scan.ispg)
    /\ UNCHANGED <<text, given>>
    /\ UNCHANGED <<rows, refls, maxidx, dims, grid, count, cursor, fftlog>>
    /\ UNCHANGED mapVars

\* sf_cif_to_map has just been called on text
StartCif ==
    /\ pc = "symops"
    /\ lineno = 1
    /\ scan = StartSymScan
    /\ rows = <<>>
    /\ refls = <<>>
    /\ symops = <<>>
    /\ maxidx = <<0, 0, 0>>
    /\ dims = <<0, 0, 0>>
    /\ grid = <<>>
    /\ count = <<>>
    /\ cursor = <<1, 1>>
    /\ fftlog = <<>>
    /\ src = [len |-> 0]
    /\ result = NoResult
    /\ sample = NoSample

---------------------------------------------------------------------------
(* Operator strings written from their terms.  A term is <<sign, what>>:   *)
(* what is the characters of the term: x, y, z or a constant.              *)

TermConstants == {<<"1", "/", "2">>, <<"1", "/", "3">>, <<"3", "/", "4">>, <<"0", ".", "5">>}
Terms == {-1, 1} \X ({<<"x">>, <<"y">>, <<"z">>} \cup TermConstants)

\* the characters of a term; a leading positive term may drop its sign
TermChars(t, bare) ==
    (IF t[1] < 0 THEN <<"-">> ELSE IF bare THEN <<>> ELSE <<"+">>)
        \o t[2]

RECURSIVE AxisChars(_, _, _)
AxisChars(ts, i, bare) ==
    IF i > Len(ts) THEN <<>>
    ELSE TermChars(ts[i], bare /\ i = 1) \o AxisChars(ts, i + 1, bare)

\* "e1,e2,e3"
ExprChars(axes, bare) ==
    AxisChars(axes[1], 1, bare) \o <<",">> \o AxisChars(axes[2], 1, bare) \o <<",">>
        \o AxisChars(axes[3], 1, bare)

AxisExprs == SeqsUpTo(Terms, MaxTerms) \ {<<>>}
\* the axis expressions "y" and "z+1/3"
FixedAxisExprs == {<<<<1, <<"y">>>>>>, <<<<1, <<"z">>>>, <<1, <<"1", "/", "3">>>>>>}

\* three axis expressions, one of them arbitrary
ExprTerms ==
    UNION {{[a \in 1..3 |-> IF a = pos THEN e ELSE f[a]] :
               e \in AxisExprs, f \in {[a \in 1..3 |-> g] : g \in FixedAxisExprs}} : pos \in 1..3}
        \cup {<<<<<<-1, <<"y">>>>>>, <<<<1, <<"x">>>>, <<-1, <<"y">>>>>>, <<<<1, <<"z">>>>, <<1, <<"1", "/", "3">>>>>>>>}

Quoted(chars, q) == IF q = "" THEN chars ELSE <<q>> \o chars \o <<q>>

InitSymop ==
    /\ StartCif
    /\ \E axes \in ExprTerms : \E bare \in BOOLEAN : \E q \in {"", "'"} :
        /\ given = axes
        /\ text = <<LoopLine, TagLine("_space_group_symop.operation_xyz"),
                    OpLine(Quoted(ExprChars(axes, bare), q))>>

NextSymop == ScanSymLine \/ FinishSymScan

\* the symmetry scan of a text whose operator loop holds one operator string
SpecSymop == InitSymop /\ [][NextSymop]_vars

\* terms that are no signed x, y, z, decimal or fraction: "2x", "1/x",
\* "1/2a", "a", "x/2", "xy"
UnknownTerms ==
    {<<"2", "x">>, <<"1", "/", "x">>, <<"1", "/", "2", "a">>, <<"a">>, <<"x", "/", "2">>,
     <<"x", "y">>}

\* the axis expression "x", "y" or "z" of axis a
OwnLetter(a) == <<<<1, <<(<<"x", "y", "z">>)[a]>>>>>>

\* an axis expression that ends with an unknown term, alone or after a
\* recognised term
UnknownAxisExprs ==
    {<<b>> : b \in {-1, 1} \X UnknownTerms}
    \cup {<<l, b>> : l \in {<<1, <<"x">>>>, <<1, <<"1", "/", "2">>>>},
                     b \in {-1, 1} \X UnknownTerms}

\* three axis expressions of which one holds an unknown term, and four
\* axis expressions
MalformedTerms ==
    {[a \in 1..3 |-> IF a = pos THEN e ELSE OwnLetter(a)] :
        pos \in 1..3, e \in UnknownAxisExprs}
    \cup {<<OwnLetter(1), OwnLetter(2), OwnLetter(3), f>> :
            f \in {OwnLetter(1), <<<<1, <<"a">>>>>>, <<<<1, <<"1", "/", "2">>>>>>}}

RECURSIVE JoinAxes(_, _, _)
\* the axis expressions from the i-th on, separated by commas
JoinAxes(axes, i, bare) ==
    IF i > Len(axes) THEN <<>>
    ELSE (IF i > 1 THEN <<",">> ELSE <<>>) \o AxisChars(axes[i], 1, bare)
         \o JoinAxes(axes, i + 1, bare)

InitMalformed ==
    /\ StartCif
    /\ \E axes \in MalformedTerms : \E bare \in BOOLEAN :
        /\ given = axes
        /\ text = <<LoopLine, TagLine("_symmetry_equiv.pos_as_xyz"),
                    OpLine(JoinAxes(axes, 1, bare))>>

\* the symmetry scan of a text whose operator string holds a term or an
\* expression that parse_symop_xyz does not recognise
SpecMalformed == InitMalformed /\ [][NextSymop]_vars

---------------------------------------------------------------------------
(* Structure-factor texts written from their parts: a cell block, a        *)
(* symmetry block and a reflection loop.  `given` records the parts.       *)

\* most reflection rows in a text
MaxCifRows == 2

CifCell == <<4, 4, 4, 90, 90, 90>>

\* the six _cell lines, followed by an empty line
CellBlock(has) ==
    IF has THEN <<TagValueLine(CellTags[1], CifCell[1]), TagValueLine(CellTags[2], CifCell[2]),
                  TagValueLine(CellTags[3], CifCell[3]), TagValueLine(CellTags[4], CifCell[4]),
                  TagValueLine(CellTags[5], CifCell[5]), TagValueLine(CellTags[6], CifCell[6]),
                  EmptyLine>>
    ELSE <<>>

\* "x,y,z"
IdentityChars == <<"x", ",", "y", ",", "z">>
\* "x+1/2,y+1/2,z+1/2"
BodyCentringChars ==
    ExprChars(<<<<<<1, <<"x">>>>, <<1, <<"1", "/", "2">>>>>>,
                <<<<1, <<"y">>>>, <<1, <<"1", "/", "2">>>>>>,
                <<<<1, <<"z">>>>, <<1, <<"1", "/", "2">>>>>>>>, TRUE)

\* the symmetry blocks: none at all, a loop header without rows, the tag
\* and a row outside any loop, a loop whose row holds no x, y or z, and a
\* loop of two operators
SymBlocks == {"none", "header", "unlooped", "novalid", "ops"}
SymBlock(v) ==
    IF v = "none" THEN <<>>
    ELSE IF v = "header" THEN <<LoopLine, TagLine("_symmetry_equiv.pos_as_xyz")>>
    ELSE IF v = "unlooped"
         THEN <<TagLine("_space_group_symop.operation_xyz"), OpLine(BodyCentringChars)>>
    ELSE IF v = "novalid"
         THEN <<LoopLine, TagLine("_space_group_symop.operation_xyz"), OpLine(<<"1">>)>>
    ELSE <<LoopLine, TagLine("_space_group_symop.operation_xyz"),
           OpLine(Quoted(IdentityChars, "'")), OpLine(BodyCentringChars)>>

PrimaryNames ==
    <<"_refln.index_h", "_refln.index_k", "_refln.index_l", "_refln.pdbx_FWT",
      "_refln.pdbx_PHWT">>
AliasNames == <<"_refln.h", "_refln.k", "_refln.l", "_refln.FWT", "_refln.PHWT">>

AllPrimary == <<"primary", "primary", "primary", "primary", "primary">>
\* the names of the five columns: at most one column departs from its
\* primary name, or two columns are absent, or all are
ColumnVariants ==
    {[AllPrimary EXCEPT ![c] = v] : c \in 1..5, v \in {"primary", "alias", "absent"}}
        \cup {[AllPrimary EXCEPT ![1] = "absent", ![4] = "absent"],
              <<"absent", "absent", "absent", "absent", "absent">>}

RECURSIVE HeaderLines(_, _)
\* the tag lines of the columns that are present, from column c on
HeaderLines(choice, c) ==
    IF c > 5 THEN <<>>
    ELSE (IF choice[c] = "absent" THEN <<>>
          ELSE <<TagLine(IF choice[c] = "primary" THEN PrimaryNames[c] ELSE AliasNames[c])>>)
         \o HeaderLines(choice, c + 1)

RECURSIVE KeepPresent(_, _, _)
\* the tokens of a row under the columns that are present
KeepPresent(row, choice, c) ==
    IF c > Len(row) THEN <<>>
    ELSE (IF choice[c] = "absent" THEN <<>> ELSE <<row[c]>>) \o KeepPresent(row, choice, c + 1)

RECURSIVE RowLines(_, _, _)
RowLines(rs, choice, i) ==
    IF i > Len(rs) THEN <<>>
    ELSE LET toks == KeepPresent(rs[i], choice, 1) IN
         (IF toks = <<>> THEN <<>> ELSE <<RowLine(toks)>>) \o RowLines(rs, choice, i + 1)

\* the reflection loop: loop_, the column names, the rows
ReflnBlock(choice, rs) ==
    IF \A c \in 1..5 : choice[c] = "absent" THEN <<>>
    ELSE <<LoopLine>> \o HeaderLines(choice, 1) \o RowLines(rs, choice, 1)

\* rows of a text: two reflections, a NaN amplitude, a "?" amplitude, a
\* "?" phase, and a row that ends after its indices
CifRows ==
    {Row(0, 0, 0, 3, 0), Row(1, 0, 0, 2, 1),
     [Row(1, 0, 0, 1, 0) EXCEPT ![4] = NanTok],
     [Row(1, 0, 0, 1, 0) EXCEPT ![4] = TextTok],
     [Row(0, 0, 0, 1, 0) EXCEPT ![5] = TextTok],
     <<Num(1), Num(0), Num(0)>>}

CifText(g) == CellBlock(g.cell) \o SymBlock(g.sym) \o ReflnBlock(g.names, g.rows)

\* the parts of the texts: either the column names vary, or the cell
\* block, the symmetry block and the rows do
CifParts ==
    {[cell |-> TRUE, sym |-> "ops", names |-> n, rows |-> <<Row(0, 0, 0, 3, 0)>>] :
        n \in ColumnVariants}
    \cup {[cell |-> c, sym |-> v, names |-> AllPrimary, rows |-> rs] :
            c \in BOOLEAN, v \in SymBlocks, rs \in SeqsUpTo(CifRows, MaxCifRows)}

InitCif ==
    /\ StartCif
    /\ given \in CifParts
    /\ text = CifText(given)

NextCif ==
    \/ ScanSymLine \/ FinishSymScan \/ ScanReflnLine \/ RequireColumns
    \/ CollectRow \/ SizeGrid \/ BeginAssembly \/ Contribute \/ Average
    \/ Conjugate \/ FftX \/ FftY \/ FftZ \/ BuildMap

\* sf_cif_to_map on a text, from its first line to its result
SpecCif == InitCif /\ [][NextCif]_vars

---------------------------------------------------------------------------
(* Texts whose reflection loop is followed by other lines.                 *)

MaxTrailerRows == 2

\* a comment line "#": one token, which is no number
CommentLine == RowLine(<<TextTok>>)

Trailers == {"none", "empty", "comment", "category", "loop", "comment_loop"}

\* the lines after the last row of the reflection loop
TrailerLines(t) ==
    IF t = "none" THEN <<>>
    ELSE IF t = "empty" THEN <<EmptyLine>>
    ELSE IF t = "comment" THEN <<CommentLine>>
    ELSE IF t = "category" THEN <<TagValueLine("_diffrn.id", 1)>>
    ELSE IF t = "loop" THEN <<LoopLine, TagLine("_diffrn.id"), RowLine(<<Num(1)>>)>>
    ELSE <<CommentLine, LoopLine, TagLine("_diffrn.id"), RowLine(<<Num(1)>>)>>

TrailerRows == {Row(1, 0, 0, 2, 0), Row(0, 0, 0, 3, 0), Row(0, 1, -1, 1, 3)}

TrailerParts ==
    {[rows |-> rs, trailer |-> t] :
        rs \in SeqsUpTo(TrailerRows, MaxTrailerRows) \ {<<>>}, t \in Trailers}

InitTrailer ==
    /\ StartCif
    /\ given \in TrailerParts
    /\ text = CellBlock(TRUE) \o ReflnBlock(AllPrimary, given.rows) \o TrailerLines(given.trailer)

\* sf_cif_to_map on a text whose reflection loop is followed by a trailer
SpecTrailer == InitTrailer /\ [][NextCif]_vars

---------------------------------------------------------------------------
(* Texts whose operator loop has an id column, and lines after the loop.   *)

MaxLoopOps == 2

\* "-x,-y,z"
TwofoldChars == <<"-", "x", ",", "-", "y", ",", "z">>

\* the operator strings of the loops and the operators they stand for
LoopOps == {<<IdentityChars, OpIdentity>>, <<TwofoldChars, OpTwofold>>,
            <<BodyCentringChars, OpBodyCentring>>}

\* the column tags of the loop: the operator tag alone, after an id tag,
\* or before it
Layouts == {"only", "id_first", "op_first"}

LayoutTags(layout) ==
    IF layout = "only" THEN <<TagLine("_space_group_symop.operation_xyz")>>
    ELSE IF layout = "id_first"
         THEN <<TagLine("_space_group_symop.id"), TagLine("_space_group_symop.operation_xyz")>>
    ELSE <<TagLine("_space_group_symop.operation_xyz"), TagLine("_space_group_symop.id")>>

\* row i of the loop: the operator string, with the id i in its column
LoopRow(layout, chars, i) ==
    LET id == <<(<<"1", "2", "3">>)[i]>> IN
    IF layout = "only" THEN Line("data", "", None, chars, <<chars>>)
    ELSE IF layout = "id_first" THEN Line("data", "", None, id \o <<" ">> \o chars, <<id, chars>>)
    ELSE Line("data", "", None, chars \o <<" ">> \o id, <<chars, id>>)

\* what follows the loop: nothing, a category, the comment "#", the
\* comment "# next", or a loop of another category with the row "x1"
LoopTrailers == {"none", "category", "comment", "remark", "loop"}

LoopTrailerLines(t) ==
    IF t = "none" THEN <<>>
    ELSE IF t = "category" THEN <<TagValueLine("_diffrn.id", 1)>>
    ELSE IF t = "comment" THEN <<OpLine(<<"#">>)>>
    ELSE IF t = "remark" THEN <<OpLine(<<"#", " ", "n", "e", "x", "t">>)>>
    ELSE <<LoopLine, TagLine("_atom_type.symbol"), OpLine(<<"x", "1">>)>>

LoopParts ==
    {[layout |-> la, ops |-> os, trailer |-> t] :
        la \in Layouts, os \in SeqsUpTo(LoopOps, MaxLoopOps) \ {<<>>}, t \in LoopTrailers}

LoopText(g) ==
    <<LoopLine>> \o LayoutTags(g.layout)
        \o [i \in 1..Len(g.ops) |-> LoopRow(g.layout, g.ops[i][1], i)]
        \o LoopTrailerLines(g.trailer)

InitSymLoop ==
    /\ StartCif
    /\ given \in LoopParts
    /\ text = LoopText(given)

\* the symmetry scan of a text with an operator loop of several columns
SpecSymLoop == InitSymLoop /\ [][NextSymop]_vars

---------------------------------------------------------------------------
(* Sources whose header carries extents or a symmetry-block length that    *)
(* no file of that length can honour.                                      *)

\* extents: negative, zero, small, and 2^15 and 2^16, whose products pass
\* the range of an i32
ExtentValues == {-1, 0, 1, 2, 32768, 65536}
SymmetryLengths == {-4, 0, 80}

ExtentSources ==
    {Source(len, TRUE, 2, n, <<2, 2, 2>>, <<4, 4, 4>>, <<1, 2, 3>>, nsymbt,
            <<0, 0, 0>>, <<0, 0, 0>>) :
        len \in {HEADER_SIZE, HEADER_SIZE + 8, HEADER_SIZE + 96},
        n \in ExtentValues \X ExtentValues \X ExtentValues,
        nsymbt \in SymmetryLengths}

InitExtents ==
    /\ src \in ExtentSources
    /\ result = NoResult
    /\ sample = NoSample
    /\ IdleSf
    /\ IdleCif

\* DensityMap::new on headers with unusable extents
SpecExtents == InitExtents /\ [][NextRead]_vars

---------------------------------------------------------------------------
(* Properties of the binary reader and of sampling.                        *)

Constructed == result.kind = "ok"
TheMap == result.map
VoxelCount(dm) == dm.hdr.nx * dm.hdr.ny * dm.hdr.nz
\* the query point equals the Cartesian point p (both [0..2 -> rational])
AtPoint(p) == \A c \in 0..2 : RatEq(sample.cart[c], p[c])
CartOrigin == [c \in 0..2 |-> <<0, 1>>]
\* the Cartesian point (1.5, 0.5, 0.5)
CartVoxel100 == [c \in 0..2 |-> IF c = 0 THEN <<3, 2>> ELSE <<1, 2>>]

\* C1: every DensityField that DensityMap::new produces has a permutation
\* pair that round-trips: perm_c2f[perm_f2c[i]] = i and
\* perm_f2c[perm_c2f[i]] = i for every axis i.
C1_PermRoundTrip ==
    Constructed =>
        \A i \in 0..2 :
            /\ TheMap.perm_c2f[TheMap.perm_f2c[i]] = i
            /\ TheMap.perm_f2c[TheMap.perm_c2f[i]] = i

IsScenario == src = ScenarioSource /\ Constructed /\ sample.op = "nearest"

\* C2 (as stated): on the 4x4x4 identity-arrangement map with payload
\* 0.0..63.0 and cell side 4, density_at_point at the Cartesian origin
\* returns 0.0, and at a point mapping to grid index (1,0,0) returns 1.0.
C2_OriginReadsFirstVoxel ==
    IsScenario =>
        /\ AtPoint(CartOrigin) =>
              ~sample.out.panic /\ RatEq(sample.out.value, <<0, 1>>)
        /\ sample.out.ic = [c \in 0..2 |-> IF c = 0 THEN 1 ELSE 0] =>
              ~sample.out.panic /\ RatEq(sample.out.value, <<1, 1>>)

\* C2 (amended): on that map density_at_point at the Cartesian origin
\* returns 63.0, the voxel at file index (3,3,3), because the origin lies on
\* the half-voxel boundary and rounds to index -1 on every axis; at a point
\* mapping to grid index (1,0,0), such as (1.5, 0.5, 0.5), it returns 1.0.
C2_OriginReadsLastVoxel ==
    IsScenario =>
        /\ AtPoint(CartOrigin) =>
              /\ ~sample.out.panic
              /\ sample.out.ifile = [f \in 0..2 |-> 3]
              /\ RatEq(sample.out.value, <<63, 1>>)
        /\ sample.out.ic = [c \in 0..2 |-> IF c = 0 THEN 1 ELSE 0] =>
              ~sample.out.panic /\ RatEq(sample.out.value, <<1, 1>>)
        /\ AtPoint(CartVoxel100) =>
              sample.out.ic = [c \in 0..2 |-> IF c = 0 THEN 1 ELSE 0]

C2_Witness == IsScenario /\ AtPoint(CartOrigin) /\ ~sample.out.panic

\* the point p + k * (cell vector of axis c)
ShiftByCell(dm, cart, c, k) ==
    [cart EXCEPT ![c] = <<cart[c][1] + k * dm.cell[c + 1] * cart[c][2], cart[c][2]>>]

\* C3: nearest-neighbour sampling is periodic in the unit cell:
\* density_at_point(p) = density_at_point(p + k*v) for every cell vector v
\* and every integer k (here |k| <= MaxShift).
C3_PeriodicSampling ==
    (Constructed /\ sample.op = "nearest") =>
        \A c \in 0..2 : \A k \in (-MaxShift)..MaxShift :
            LET shifted == density_at_point(TheMap, ShiftByCell(TheMap, sample.cart, c, k))
            IN /\ shifted.panic = sample.out.panic
               /\ shifted.offset = sample.out.offset
               /\ shifted.value = sample.out.value

\* a point with a negative coordinate sampled on a non-cubic map stored in
\* a non-identity axis arrangement
C3_Witness ==
    /\ Constructed /\ sample.op = "nearest" /\ ~sample.out.panic
    /\ \E c \in 0..2 : sample.cart[c][1] < 0
    /\ TheMap.hdr.nx # TheMap.hdr.ny
    /\ TheMap.perm_f2c # [f \in 0..2 |-> f]

ValidGeometry(dm) ==
    /\ \A f \in 0..2 : HdrN(dm.hdr)[f] > 0
    /\ {dm.perm_f2c[f] : f \in 0..2} = 0..2

\* C4: both sampling operations wrap at grid boundaries instead of failing:
\* on a map with positive extents and a valid axis permutation every voxel
\* offset they compute lies in [0, nx*ny*nz), and a crystallographic index
\* of -1 is read from the last voxel of the file axis it lands on.
C4_SamplingWrapsInRange ==
    (Constructed /\ ValidGeometry(TheMap)) =>
        /\ sample.op = "nearest" =>
              /\ ~sample.out.panic
              /\ sample.out.offset \in 0..(VoxelCount(TheMap) - 1)
              /\ \A f \in 0..2 :
                    sample.out.ic[TheMap.perm_c2f[f]] = -1 =>
                        sample.out.ifile[f] = HdrN(TheMap.hdr)[f] - 1
        /\ sample.op = "trilinear" =>
              /\ ~sample.out.panic
              /\ \A j \in 1..8 :
                    sample.out.corners[j].offset \in 0..(VoxelCount(TheMap) - 1)

\* C5: DensityMap::new never succeeds when the tag at byte 208 is not
\* "MAP " or the data mode is not 2: it returns an error and no map.
C5_TagAndModeFatal ==
    (result.kind # "none" /\ (~src.tag \/ src.mode # 2)) =>
        result.kind = "err" /\ result.map = NoMap

\* a complete file with a wrong tag was refused for its tag, and a complete
\* file with a good tag would have been refused for its mode
C5_Witness ==
    /\ result.kind = "err"
    /\ ~src.tag
    /\ result.err = ErrTag
    /\ src.len >= FullLen(<<src.nx, src.ny, src.nz>>, src.nsymbt)
    /\ src.mode = 2 /\ src.nx > 0 /\ src.ny > 0

\* C6: a DensityField is produced only if the source supplies the full
\* 1024-byte header, the symmetry block and all nx*ny*nz values; on success
\* data holds exactly nx*ny*nz values, read in file order from byte
\* 1024 + nsymbt on.
C6_NoTruncatedSuccess ==
    Constructed =>
        /\ src.len >= HEADER_SIZE + src.nsymbt + 4 * VoxelCount(TheMap)
        /\ DOMAIN TheMap.data = 0..(VoxelCount(TheMap) - 1)
        /\ \A i \in DOMAIN TheMap.data : TheMap.data[i] = i

HasExplicitOrigin(s) == \E i \in 1..3 : Abs(s.origin[i]) > EPS

\* C7: origin_frac is (nxstart/mx, nystart/my, nzstart/mz) exactly when the
\* header carries no explicit origin (all fields of magnitude at most
\* 1e-4); a header with at least one origin field above 1e-4 in magnitude
\* gets the Cartesian-to-fractional transform of its origin.
C7_OriginResolution ==
    Constructed =>
        LET explicit == cartesian_to_fractional(src.cell,
                            [i \in 0..2 |-> <<src.origin[i + 1], OriginUnitsPerAngstrom>>])
            derived == [i \in 0..2 |-> <<src.nstart[i + 1], src.m[i + 1]>>]
        IN \A i \in 0..2 :
              RatEq(TheMap.origin_frac[i],
                    IF HasExplicitOrigin(src) THEN explicit[i] ELSE derived[i])

---------------------------------------------------------------------------
(* Properties of the reconstruction.                                       *)

Sized == pc \in {"sized", "assemble", "averaged"}

\* the least common multiple of the translation denominators of all
\* operators on an axis: the least positive integer every one divides
AxisLcm(axis) ==
    LET ds == {denom_of_fraction(symops[j].t[axis]) : j \in 1..Len(symops)} IN
    CHOOSE v \in 1..27720 :
        /\ \A d \in ds : v % d = 0
        /\ \A u \in 1..(v - 1) : \E d \in ds : u % d # 0

\* C8: each grid dimension chosen by the grid sizer is an exact multiple of
\* the least common multiple of the translation denominators of all
\* symmetry operators on that axis.
C8_SymmetryDivisible ==
    Sized => \A a \in 0..2 : dims[a + 1] % AxisLcm(a) = 0

\* n has no prime factor other than 2, 3 and 5
FiveSmooth(n) ==
    \A p \in 6..n : n % p = 0 => \E q \in 2..(p - 1) : p % q = 0

\* C9: every grid dimension chosen by the grid sizer has no prime factor
\* other than 2, 3 and 5, for every input, zero reflections included.
C9_FftFriendly ==
    Sized => \A a \in 1..3 : dims[a] >= 1 /\ FiveSmooth(dims[a])

\* a size that the FFT rounding had to raise was chosen, on an axis with a
\* symmetry translation
C9_Witness ==
    /\ Sized
    /\ \E a \in 1..3 :
        /\ dims[a] # 2 * maxidx[a] + 1
        /\ AxisLcm(a - 1) > 1
        /\ maxidx[a] > 0

\* C10: after assembly and averaging the cell at the wrapped index
\* (-h,-k,-l) is the complex conjugate of the cell at (h,k,l), for every
\* grid index.
C10_Hermitian ==
    pc = "averaged" =>
        \A h \in 0..(dims[1] - 1) : \A k \in 0..(dims[2] - 1) : \A l \in 0..(dims[3] - 1) :
            CEq(grid[idx(-h, -k, -l, dims)], CConj(grid[idx(h, k, l, dims)]))

\* an averaged grid with a cell that is its own Friedel mate and received
\* contributions, a cell hit by more than two contributions, and a cell
\* with a non-zero imaginary part
C10_Witness ==
    /\ pc = "averaged"
    /\ count[0] > 0
    /\ \E i \in DOMAIN count : count[i] > 2
    /\ \E i \in DOMAIN grid : grid[i][2] # 0

LoneIdentity == pc = "averaged" /\ Len(refls) = 1 /\ symops = <<OpIdentity>>
\* the structure factor F of a reflection
FactorOf(r) == from_polar(r.amp, r.phase)
ReflIdx(r) == idx(r.h, r.k, r.l, dims)
MateIdx(r) == idx(-r.h, -r.k, -r.l, dims)

\* C11 (as stated): with the single reflection (1,0,0), amplitude 2, phase
\* 0 and the identity operator the cell (1,0,0) is 2+0i, the cell at the
\* wrapped (-1,0,0) is 2-0i and every other cell is zero; in general a lone
\* reflection with the identity operator places F at its wrapped index and
\* conj(F) at its Friedel mate.
C11_LoneReflection ==
    LoneIdentity =>
        LET r == refls[1] IN
        /\ CEq(grid[ReflIdx(r)], FactorOf(r))
        /\ CEq(grid[MateIdx(r)], CConj(FactorOf(r)))
        /\ \A i \in DOMAIN grid : i \notin {ReflIdx(r), MateIdx(r)} => CEq(grid[i], CZero)

\* C11 (amended): the scenario as stated; in general a lone reflection
\* other than (0,0,0) places F at its wrapped index and conj(F) at its
\* Friedel mate, and the lone reflection (0,0,0), which is its own mate,
\* leaves the real part of F in cell 0; every other cell is zero.
C11_LoneReflectionRealOrigin ==
    LoneIdentity =>
        LET r == refls[1] IN
        /\ (r.h = 1 /\ r.k = 0 /\ r.l = 0 /\ r.amp = 2 /\ r.phase = 0) =>
              /\ grid[idx(1, 0, 0, dims)] = <<2, 0, 1>>
              /\ grid[idx(-1, 0, 0, dims)] = <<2, 0, 1>>
        /\ IF ReflIdx(r) # MateIdx(r)
           THEN /\ CEq(grid[ReflIdx(r)], FactorOf(r))
                /\ CEq(grid[MateIdx(r)], CConj(FactorOf(r)))
           ELSE /\ r.h = 0 /\ r.k = 0 /\ r.l = 0
                /\ CEq(grid[0], <<FactorOf(r)[1], 0, 1>>)
        /\ \A i \in DOMAIN grid : i \notin {ReflIdx(r), MateIdx(r)} => CEq(grid[i], CZero)

\* the scenario of C11 has been assembled on its 3x1x1 grid
C11_Witness ==
    /\ LoneIdentity
    /\ refls = <<[h |-> 1, k |-> 0, l |-> 0, amp |-> 2, phase |-> 0]>>
    /\ dims = <<3, 1, 1>>
    /\ count[1] = 1 /\ count[2] = 1

\* the writes of all (reflection, operator) pairs into cell i: <<j, m, 0>>
\* is the direct write of pair (j, m), <<j, m, 1>> its Friedel-mate write
WritesInto(i) ==
    {w \in (1..Len(refls)) \X (1..Len(symops)) \X {0, 1} :
        LET hp == ReciprocalImage(refls[w[1]], symops[w[2]]) IN
        i = IF w[3] = 0 THEN idx(hp[1], hp[2], hp[3], dims)
            ELSE idx(-hp[1], -hp[2], -hp[3], dims)}

WriteValue(w) ==
    LET f == ShiftedFactor(refls[w[1]], symops[w[2]]) IN
    IF w[3] = 0 THEN f ELSE CConj(f)

RECURSIVE SumOfWrites(_)
SumOfWrites(W) ==
    IF W = {} THEN CZero
    ELSE LET w == CHOOSE x \in W : TRUE IN CAdd(WriteValue(w), SumOfWrites(W \ {w}))

\* C12: after all reflections are processed every cell that received
\* c >= 1 contributions (directly or as a Friedel mate) holds their sum
\* divided by c, and a cell with no contribution is zero.
C12_DuplicateAveraging ==
    pc = "averaged" =>
        \A i \in DOMAIN grid :
            LET W == WritesInto(i) IN
            /\ count[i] = Cardinality(W)
            /\ IF W = {} THEN grid[i] = CZero
               ELSE CEq(grid[i], CDiv(SumOfWrites(W), Cardinality(W)))

\* an averaged grid with a cell written by two different (reflection,
\* operator) pairs whose values differ, and a cell never written
C12_Witness ==
    /\ pc = "averaged"
    /\ \E i \in DOMAIN grid : count[i] = 0
    /\ \E i \in DOMAIN grid :
          \E v \in WritesInto(i) : \E w \in WritesInto(i) :
              /\ <<v[1], v[2]>> # <<w[1], w[2]>>
              /\ ~CEq(WriteValue(v), WriteValue(w))
              /\ ~CEq(grid[i], WriteValue(v)) /\ ~CEq(grid[i], WriteValue(w))

---------------------------------------------------------------------------
(* Properties of the mmCIF parsing.                                        *)

RECURSIVE CoeffSum(_, _, _)
\* the sum of the signs of the terms of ts that are the letter v
CoeffSum(ts, i, v) ==
    IF i > Len(ts) THEN 0
    ELSE (IF ts[i][2] = <<v>> THEN ts[i][1] ELSE 0) + CoeffSum(ts, i + 1, v)

\* the value of a constant term: p/q or the decimal 0.5
ConstantValue(t) ==
    IF t[2] = <<"1", "/", "2">> THEN <<t[1], 2>>
    ELSE IF t[2] = <<"1", "/", "3">> THEN <<t[1], 3>>
    ELSE IF t[2] = <<"3", "/", "4">> THEN <<3 * t[1], 4>>
    ELSE IF t[2] = <<"0", ".", "5">> THEN <<t[1], 2>>
    ELSE <<0, 1>>

RECURSIVE ConstantSum(_, _)
ConstantSum(ts, i) ==
    IF i > Len(ts) THEN <<0, 1>> ELSE RatAdd(ConstantValue(ts[i]), ConstantSum(ts, i + 1))

SymopParsed == pc = "refln" /\ given \in ExprTerms

\* C13: "-y,x-y,z+1/3" parses to rows [[0,-1,0],[1,-1,0],[0,0,1]] and
\* translation [0,0,1/3]; in general row i of the rotation holds the summed
\* +1/-1 coefficients of x, y, z of axis expression i and translation i is
\* the sum of its constants.
C13_SymopParse ==
    /\ LET op == parse_symop_xyz(<<"-", "y", ",", "x", "-", "y", ",", "z", "+", "1", "/", "3">>)
       IN /\ op.r = Mat3(<<0, -1, 0>>, <<1, -1, 0>>, <<0, 0, 1>>)
          /\ RatEq(op.t[0], <<0, 1>>) /\ RatEq(op.t[1], <<0, 1>>) /\ RatEq(op.t[2], <<1, 3>>)
    /\ SymopParsed =>
          /\ Len(symops) = 1
          /\ \A i \in 1..3 :
                /\ symops[1].r[i - 1][0] = CoeffSum(given[i], 1, "x")
                /\ symops[1].r[i - 1][1] = CoeffSum(given[i], 1, "y")
                /\ symops[1].r[i - 1][2] = CoeffSum(given[i], 1, "z")
                /\ RatEq(symops[1].t[i - 1], ConstantSum(given[i], 1))

\* the scenario string has been parsed out of a quoted loop row
C13_Witness ==
    /\ SymopParsed
    /\ given = <<<<<<-1, <<"y">>>>>>, <<<<1, <<"x">>>>, <<-1, <<"y">>>>>>, <<<<1, <<"z">>>>, <<1, <<"1", "/", "3">>>>>>>>
    /\ text[3].chars[1] = "'"
    /\ symops[1].r = Mat3(<<0, -1, 0>>, <<1, -1, 0>>, <<0, 0, 1>>)
    /\ symops[1].t[2] = <<1, 3>>

---------------------------------------------------------------------------
(* Properties of the Fourier reconstruction.                               *)

\* the positions of the log at which line j of the pass along axis was
\* transformed
LoggedAt(axis, j) == {i \in 1..Len(fftlog) : fftlog[i] = <<axis, j>>}

\* every line of the pass along axis has been transformed before position i
PassCompleteBefore(axis, i) ==
    \A j \in 0..(LineCount(axis, dims) - 1) : \E m \in LoggedAt(axis, j) : m < i

\* C19: the steps of the Fourier reconstruction are strictly ordered: the
\* grid is conjugated before any transform, every X line is transformed
\* before any Y line and every Y line before any Z line, each line of each
\* axis is transformed exactly once, and the real part is taken only after
\* all three passes have completed.
C19_FftOrdering ==
    /\ fftlog # <<>> => fftlog[1] = <<"conj", 0>>
    /\ Cardinality(LoggedAt("conj", 0)) <= 1
    /\ \A i \in 1..Len(fftlog) :
          /\ fftlog[i][1] = "y" => PassCompleteBefore("x", i)
          /\ fftlog[i][1] = "z" => PassCompleteBefore("y", i)
          /\ fftlog[i][1] = "real" =>
                /\ i = Len(fftlog)
                /\ PassCompleteBefore("x", i) /\ PassCompleteBefore("y", i)
                /\ PassCompleteBefore("z", i)
    /\ \A axis \in {"x", "y", "z"} : \A j \in 0..(LineCount(axis, dims) - 1) :
          Cardinality(LoggedAt(axis, j)) <= 1
    /\ pc = "done" =>
          /\ fftlog[Len(fftlog)] = <<"real", 0>>
          /\ \A axis \in {"x", "y", "z"} : \A j \in 0..(LineCount(axis, dims) - 1) :
                Cardinality(LoggedAt(axis, j)) = 1
          /\ Len(fftlog) = 2 + LineCount("x", dims) + LineCount("y", dims) + LineCount("z", dims)

\* a map has been built from a grid with several lines on every axis and
\* a non-zero density
C19_Witness ==
    /\ pc = "done"
    /\ result.kind = "ok"
    /\ \A a \in 1..3 : dims[a] > 1
    /\ \E i \in DOMAIN result.map.data : result.map.data[i][1] # 0

---------------------------------------------------------------------------
(* Properties of sf_cif_to_map on a text.                                  *)

\* a line whose characters hold x, y or z
HoldsXyz(l) == \E i \in 1..Len(l.chars) : l.chars[i] \in {"x", "y", "z"}

\* the text holds a loop_ line followed by an operator tag and then by
\* data lines, one of which holds an operator
ValidOperatorLoop(t) ==
    \E i \in 1..Len(t) : \E j \in (i + 2)..Len(t) :
        /\ t[i].kind = "loop"
        /\ t[i + 1].kind = "tag" /\ t[i + 1].name \in SymopTags
        /\ \A m \in (i + 2)..j : t[m].kind = "data"
        /\ HoldsXyz(t[j])

\* parse_mmcif_symops_and_cell has returned
SymopsReturned == pc \notin {"symops"}

\* C14: the symmetry-operator list returned by parse_mmcif_symops_and_cell
\* is never empty, and when the text holds no valid operator loop it is
\* exactly one operator, the identity rotation with zero translation.
C14_SymopsNeverEmpty ==
    SymopsReturned =>
        /\ symops # <<>>
        /\ ~ValidOperatorLoop(text) =>
              symops = <<SymOp(<<1, 0, 0>>, <<0, 1, 0>>, <<0, 0, 1>>,
                               <<<<0, 1>>, <<0, 1>>, <<0, 1>>>>)>>

\* the scan of a text with an operator tag in a loop, but no operator row,
\* has returned the identity
C14_Witness ==
    /\ pc = "refln"
    /\ \E i \in 1..Len(text) : text[i].kind = "tag" /\ text[i].name \in SymopTags
    /\ \E i \in 1..Len(text) : text[i].kind = "loop"
    /\ ~ValidOperatorLoop(text)
    /\ symops = <<OpIdentity>>

\* the lines of the text that name a reflection column
ReflnTagLines(t) == {i \in 1..Len(t) : t[i].kind = "tag" /\ t[i].name \in ReflnTags}

\* column c (h, k, l, amplitude, phase) is named in the text, under its
\* primary name or its alias
Present(t, c) ==
    \E i \in ReflnTagLines(t) : t[i].name \in {PrimaryNames[c], AliasNames[c]}

\* the position among the columns of the text of column c
PositionOf(t, c) ==
    LET i == CHOOSE i \in ReflnTagLines(t) : t[i].name \in {PrimaryNames[c], AliasNames[c]}
    IN Cardinality({j \in ReflnTagLines(t) : j < i})

\* the message that names column c
MissingMessage(c) == (<<ErrNoH, ErrNoK, ErrNoL, ErrNoF, ErrNoPh>>)[c]

\* C15: sf_cif_to_map returns an error naming the missing field, and no
\* DensityField, whenever one of the five required reflection columns is
\* absent under both its primary name and its legacy alias; when every
\* column is present under either name the lookups succeed and find the
\* columns.
C15_RequiredColumns ==
    pc \notin {"symops", "refln"} =>
        IF \E c \in 1..5 : ~Present(text, c)
        THEN /\ result.kind = "err"
             /\ result.map = NoMap
             /\ \E c \in 1..5 : ~Present(text, c) /\ result.err = MissingMessage(c)
        ELSE /\ result.kind # "err"
             /\ scan.cols = Cols(PositionOf(text, 1), PositionOf(text, 2), PositionOf(text, 3),
                                 PositionOf(text, 4), PositionOf(text, 5))

\* a text that names every column but the phase has been refused with the
\* message about the phases
C15_Witness ==
    /\ pc = "error"
    /\ \A c \in 1..4 : Present(text, c)
    /\ ~Present(text, 5)
    /\ result.kind = "err"
    /\ result.err = "CIF missing 2Fo-Fc phases (pdbx_PHWT/PHWT)"

\* a row gives no number for its amplitude or its phase: the token is
\* absent from the row or is not a number ("?", ".")
MissingValue(row) ==
    \E c \in {4, 5} : c > Len(row) \/ row[c][1] = "text"

\* a row whose amplitude or phase token is a non-finite number ("nan",
\* "inf") or does not parse as a number
Skippable(row) ==
    \E c \in {4, 5} : c <= Len(row) /\ row[c][1] \in {"nan", "text"}

\* the rows that are not to be skipped
GoodRows(rs) == {i \in 1..Len(rs) : ~Skippable(rs[i])}

\* the rows the collection loop has gone through
Collected ==
    IF pc \in {"symops", "refln", "error"} THEN {}
    ELSE IF pc = "collect" THEN 1..(cursor[1] - 1)
    ELSE 1..Len(rows)

\* the largest magnitude of index a over a set of rows
MaxOver(rs, sel, a) ==
    IF sel = {} THEN 0
    ELSE CHOOSE m \in {Abs(rs[i][a][2]) : i \in sel} :
            \A i \in sel : Abs(rs[i][a][2]) <= m

\* C16: a reflection row whose amplitude or phase value is non-finite or
\* unparsable is skipped: it adds nothing to the reflection list (and so to
\* no grid cell or contribution counter) and does not affect hmax, kmax,
\* lmax; the remaining rows are processed and the construction does not
\* fail.
C16_BadRowsSkipped ==
    /\ Len(refls) = Cardinality(GoodRows(rows) \cap Collected)
    /\ \A a \in 1..3 : maxidx[a] = MaxOver(rows, GoodRows(rows) \cap Collected, a)
    /\ pc = "done" => result.kind = "ok"

\* C17: a reflection whose amplitude or phase is missing (or out of the
\* bounds of its row) makes the construction fail with a parse error; it
\* is never accepted as a reflection with a silent zero amplitude or phase.
C17_MissingValueFails ==
    \A i \in Collected : MissingValue(rows[i]) =>
        /\ result.kind = "err"
        /\ Len(refls) <= Cardinality({j \in Collected : ~MissingValue(rows[j])})

\* the text has no line that names a unit-cell parameter
NoCellData(t) ==
    ~\E i \in 1..Len(t) : \E c \in 1..6 : t[i].kind = "tag" /\ t[i].name = CellTags[c]

\* the text has no line that names a symmetry operator or a space group
NoSymmetryData(t) ==
    ~\E i \in 1..Len(t) :
        t[i].kind = "tag" /\ t[i].name \in SymopTags \cup SpaceGroupTags

\* C20: when the text holds no unit-cell parameters (or no symmetry data),
\* sf_cif_to_map fails with an error result that names the missing field
\* instead of building a DensityField from default values.
C20_MissingCellFails ==
    (pc \in {"error", "done"} /\ (NoCellData(text) \/ NoSymmetryData(text))) =>
        /\ result.kind = "err"
        /\ result.map = NoMap
        /\ result.err \notin {ErrNoH, ErrNoK, ErrNoL, ErrNoF, ErrNoPh}

---------------------------------------------------------------------------
(* Properties of the sigma normalisation.                                  *)

\* two floats are the same number
RatSame(p, q) == ~IsNaN(p) /\ ~IsNaN(q) /\ RatEq(p, q)

\* the standard deviation of the stored data
StdDev(dm) == SqrtRat(dm.variance)

\* the larger of the standard deviation of the stored data and 1e-6
FlooredStdDev(dm) ==
    IF dm.scale * StdDev(dm)[2] > StdDev(dm)[1] * 1000000
    THEN <<dm.scale, 1000000>> ELSE StdDev(dm)

\* val is the mean of dm plus k times d
AtDeviation(dm, val, k, d) == RatSame(val, RatAdd(dm.mean, RatMul(<<k, 1>>, d)))

\* C18: density_to_sig uses the statistics cached at construction: applied
\* to the stored mean it returns 0, and applied to mean + k*sigma, where
\* sigma is the standard deviation of the stored data, it returns k, for
\* every DensityField, zero or near-zero variance included.
C18_SigmaNormalisation ==
    sample.op = "to_sigma" =>
        \A k \in (-MaxSigmas)..MaxSigmas :
            AtDeviation(result.map, sample.val, k, StdDev(result.map)) =>
                RatSame(sample.out, <<k, 1>>)

\* C18, amended: for a map with at least one voxel, density_to_sig returns
\* 0 for the stored mean and k for mean + k*s, where s is the larger of the
\* standard deviation of the stored data and 1e-6, so that k counts
\* standard deviations only when that deviation is at least 1e-6; for a
\* map without voxels the mean is NaN and so is every result.
C18_SigmaNormalisationFloored ==
    sample.op = "to_sigma" =>
        IF DOMAIN result.map.data = {}
        THEN IsNaN(sample.out)
        ELSE \A k \in (-MaxSigmas)..MaxSigmas :
                AtDeviation(result.map, sample.val, k, FlooredStdDev(result.map)) =>
                    RatSame(sample.out, <<k, 1>>)

\* a map of several equal voxels has been asked for the value two floors
\* above its mean and has answered 2
C18_Witness ==
    /\ sample.op = "to_sigma"
    /\ Cardinality(DOMAIN result.map.data) > 1
    /\ result.map.variance[1] = 0
    /\ ~RatSame(sample.val, result.map.mean)
    /\ RatSame(sample.out, <<2, 1>>)

---------------------------------------------------------------------------
(* Properties of the target cells of the symmetry expansion                *)

\* the transpose image of the indices hkl under the rotation R:
\* h'_j = sum over i of R[i][j] * hkl_i
TransposeImage(R, hkl) == [j \in 0..2 |-> R[0][j] * hkl[1] + R[1][j] * hkl[2] + R[2][j] * hkl[3]]

\* the cell of the indices q on the grid: each index reduced modulo its
\* axis length, X fastest
CellOf(q) == ((q[2] % dims[3]) * dims[2] + (q[1] % dims[2])) * dims[1] + (q[0] % dims[1])

\* the (reflection, operator) pairs already processed by the loop
PairsDone ==
    {w \in (1..Len(refls)) \X (1..Len(symops)) :
        w[1] < cursor[1] \/ (w[1] = cursor[1] /\ w[2] < cursor[2])}

\* the cell written by pair w: side 0 is the direct write, side 1 the
\* Friedel mate at the negated image
TargetOf(w, side) ==
    LET r == refls[w[1]]
        q == TransposeImage(symops[w[2]].r, <<r.h, r.k, r.l>>)
    IN IF side = 0 THEN CellOf(q) ELSE CellOf([j \in 0..2 |-> -q[j]])

RECURSIVE SumOfDone(_)
SumOfDone(W) ==
    IF W = {} THEN CZero
    ELSE LET w == CHOOSE x \in W : TRUE
         IN CAdd(WriteValue(<<w[1][1], w[1][2], w[2]>>), SumOfDone(W \ {w}))

\* C24: the grid index a symmetry-expanded reflection is written to is the
\* transpose image h'_j = sum_i R[i][j] h_i, wrapped per axis into the grid
\* and linearised X-fastest as (z*ny + y)*nx + x, and its Friedel mate is
\* written at the wrapped (-h', -k', -l'): at every point of the expansion
\* loop each cell has been written exactly by the pairs processed so far
\* whose image or negated image is that cell.
C24_TransposeTarget ==
    pc = "assemble" =>
        LET targets == [w \in PairsDone \X {0, 1} |-> TargetOf(w[1], w[2])]
            written == {targets[w] : w \in DOMAIN targets}
        IN /\ \A i \in written :
                LET W == {w \in DOMAIN targets : targets[w] = i} IN
                /\ count[i] = Cardinality(W)
                /\ CEq(grid[i], SumOfDone(W))
           /\ \A i \in DOMAIN grid \ written : count[i] = 0 /\ grid[i] = CZero

\* the fourfold screw "-y,x,z+1/4" has just been applied to the reflection
\* (0,1,-1) on a 3x3x4 grid: its transpose image (1,0,-1) differs from the
\* image R h = (-1,0,-1), and both the image and its mate need wrapping
C24_Witness ==
    /\ pc = "assemble"
    /\ dims = <<3, 3, 4>>
    /\ \E w \in PairsDone :
        /\ symops[w[2]] = OpFourfoldScrew
        /\ refls[w[1]].h = 0 /\ refls[w[1]].k = 1 /\ refls[w[1]].l = -1
        /\ TargetOf(w, 0) = (3 * 3 + 0) * 3 + 1
        /\ TargetOf(w, 1) = (1 * 3 + 0) * 3 + 2
        /\ count[TargetOf(w, 0)] >= 1

---------------------------------------------------------------------------
(* Properties of the lines of the three Fourier passes                     *)

AxisOf(p) == IF p = "fft_x" THEN "x" ELSE IF p = "fft_y" THEN "y" ELSE "z"

\* the set of grid cells of line j of the pass along axis
CellSet(axis, j) ==
    LET cells == LineCells(axis, j, dims) IN {cells[i] : i \in DOMAIN cells}

Lines(axis) == 0..(LineCount(axis, dims) - 1)

\* C25: within each axis pass the cell sets of two distinct lines are
\* disjoint and the lines together cover every grid cell exactly once, so
\* the result of a pass does not depend on the order in which its lines
\* are transformed: exchanging the line the pass has reached with the one
\* that follows it gives the same grid.
C25_LinesIndependent ==
    pc \in {"fft_x", "fft_y", "fft_z"} =>
        /\ LET sets == [j \in Lines(AxisOf(pc)) |-> CellSet(AxisOf(pc), j)] IN
              /\ \A j, k \in DOMAIN sets : j < k => sets[j] \cap sets[k] = {}
              /\ \A j \in DOMAIN sets : Cardinality(sets[j]) = AxisLength(AxisOf(pc), dims)
              /\ UNION {sets[j] : j \in DOMAIN sets} = DOMAIN grid
        /\ LET axis == AxisOf(pc)
               j == cursor[1]
           IN (j + 1) \in Lines(axis) =>
                  TransformLine(TransformLine(grid, axis, j, dims), axis, j + 1, dims)
                      = TransformLine(TransformLine(grid, axis, j + 1, dims), axis, j, dims)

\* the pass along Y is under way on a grid with several cells on every
\* axis and a non-zero value: some of its strided lines are done, some not
C25_Witness ==
    /\ pc = "fft_y"
    /\ cursor[1] >= 1
    /\ cursor[1] < LineCount("y", dims)
    /\ \A a \in 1..3 : dims[a] > 1
    /\ \E c \in DOMAIN grid : ~CEq(grid[c], CZero)

---------------------------------------------------------------------------
(* Properties of the DensityMap returned by sf_cif_to_map                  *)

\* sf_cif_to_map has returned Ok(map)
SfReturned == pc = "done" /\ result.kind = "ok"

\* C26: every DensityField returned by sf_cif_to_map has the identity axis
\* arrangement and a consistent header: mapc=1, mapr=2, maps=3, perm_f2c =
\* perm_c2f = [0,1,2], mode 2, mx=nx, my=ny, mz=nz equal to the chosen grid
\* size, zero start offsets and origin, and data of length nx*ny*nz.
C26_IdentityHeader ==
    SfReturned =>
        LET m == result.map
            h == m.hdr
        IN /\ h.mapc = 1 /\ h.mapr = 2 /\ h.maps = 3
           /\ m.perm_f2c = [f \in 0..2 |-> f]
           /\ m.perm_c2f = [c \in 0..2 |-> c]
           /\ h.mode = 2
           /\ <<h.nx, h.ny, h.nz>> = dims
           /\ <<h.mx, h.my, h.mz>> = dims
           /\ h.nxstart = 0 /\ h.nystart = 0 /\ h.nzstart = 0
           /\ h.xorigin = Some(0) /\ h.yorigin = Some(0) /\ h.zorigin = Some(0)
           /\ DOMAIN m.data = 0..(h.nx * h.ny * h.nz - 1)
           /\ h.nx * h.ny * h.nz >= 1

\* a map has been returned for a grid whose axes differ in length, with a
\* density that is not zero everywhere
C26_Witness ==
    /\ SfReturned
    /\ dims[1] # dims[3]
    /\ dims[1] > 1
    /\ \E i \in DOMAIN result.map.data : result.map.data[i][1] # 0

---------------------------------------------------------------------------
(* Properties of the reflection table when other lines follow the loop     *)

\* the reflection a well-formed row stands for
ReflectionOf(row) ==
    [h |-> row[1][2], k |-> row[2][2], l |-> row[3][2], amp |-> row[4][2], phase |-> row[5][2]]

\* the collection loop has run over all scanned rows
Collected27 == pc \in {"sized", "assemble", "averaged", "fft_x", "fft_y", "fft_z", "real", "done"}

\* C27: every data row of the reflection loop is retained in the
\* reflection table used for assembly, whatever follows the loop in the
\* source: a later loop_ line, a later category or comment lines neither
\* discard collected rows nor are added as reflections themselves.
C27_RowsRetained ==
    Collected27 =>
        /\ Len(refls) = Len(given.rows)
        /\ \A i \in 1..Len(given.rows) : refls[i] = ReflectionOf(given.rows[i])

---------------------------------------------------------------------------
(* Properties of the symmetry-loop scanner                                 *)

\* C29: the symmetry-loop scanner collects exactly the data rows of the
\* operator loop: every row of that loop becomes one operator wherever the
\* operation_xyz / pos_as_xyz tag stands among the column tags of the loop,
\* and no line outside that loop is parsed as an operator.
C29_ExactlyTheLoopRows ==
    (given \in LoopParts /\ pc = "refln") =>
        /\ Len(symops) = Len(given.ops)
        /\ \A i \in 1..Len(given.ops) : symops[i] = given.ops[i][2]

---------------------------------------------------------------------------
(* Properties of the grid size against the expanded indices                *)

\* the indices written for the collected reflections: the transpose image
\* of every reflection under every operator, and its negation
ExpandedIndices ==
    UNION {LET q == TransposeImage(symops[m].r, <<refls[j].h, refls[j].k, refls[j].l>>)
           IN {q, [a \in 0..2 |-> -q[a]]} :
               j \in 1..Len(refls), m \in 1..Len(symops)}

\* C28: the chosen grid is large enough that symmetry expansion never
\* aliases: two distinct indices (h',k',l') produced by symmetry expansion
\* or Friedel completion never wrap onto the same grid cell, i.e. each axis
\* size exceeds twice the largest absolute expanded index on that axis.
C28_NoAliasing ==
    Sized =>
        /\ \A q \in ExpandedIndices : \A a \in 0..2 : dims[a + 1] > 2 * Abs(q[a])
        /\ \A p, q \in ExpandedIndices : p # q => CellOf(p) # CellOf(q)

---------------------------------------------------------------------------
(* Properties of DensityMap::new on headers with unusable extents          *)

NonPositiveExtent(s) == s.nx <= 0 \/ s.ny <= 0 \/ s.nz <= 0

\* the product of positive extents exceeds the largest i32
ProductTooLarge(s) ==
    /\ ~NonPositiveExtent(s)
    /\ \/ s.nx > MaxI32 \div s.ny
       \/ s.nx * s.ny > MaxI32 \div s.nz

\* C30: DensityMap::new returns an error, rather than panicking, reading
\* the payload from a wrong offset or building a field of the wrong size,
\* for a header whose nx, ny or nz is non-positive, whose product nx*ny*nz
\* overflows a signed 32-bit integer, or whose nsymbt is negative.
C30_BadHeaderIsError ==
    (result.kind # "none" /\ (NonPositiveExtent(src) \/ ProductTooLarge(src) \/ src.nsymbt < 0)) =>
        result.kind = "err"

---------------------------------------------------------------------------
(* Properties of the index mapping of the sampling operations.             *)

\* C21: for every axis permutation (mapc, mapr, maps) of {1, 2, 3}, the
\* cyclic ones included, nearest-neighbour sampling uses along file axis f
\* the crystallographic index of axis perm_f2c[f], wrapped by the extent of
\* file axis f, and reads data[(z*ny + y)*nx + x] for that file index.
C21_NearestPermutes ==
    (Constructed /\ ValidGeometry(TheMap) /\ sample.op = "nearest") =>
        /\ ~sample.out.panic
        /\ \A f \in 0..2 :
              sample.out.ifile[f] =
                  pmod(sample.out.ic[TheMap.perm_f2c[f]], HdrN(TheMap.hdr)[f])
        /\ sample.out.offset = LinearOffset(sample.out.ifile, HdrN(TheMap.hdr))
        /\ sample.out.value = <<TheMap.data[sample.out.offset], 1>>

\* every grid coordinate of the sampled point is an integer
IntegralPoint(dm, cart) ==
    \A c \in 0..2 : GridCoords(dm, cart)[c][1] % GridCoords(dm, cart)[c][2] = 0

\* C22: density_at_point_trilinear selects each of its 8 corner voxels with
\* the index mapping of density_at_point (the corner's crystallographic
\* index permuted to file order and wrapped by the extent of the file axis
\* it lands on), for every axis permutation and grid shape; at a point
\* whose grid coordinate is integral on all axes the interpolated value
\* equals the nearest-neighbour value.
C22_TrilinearSameMapping ==
    (Constructed /\ ValidGeometry(TheMap) /\ sample.op = "trilinear") =>
        /\ ~sample.out.panic
        /\ \A j \in 1..8 :
              LET near == NearestLookup(TheMap, HdrN(TheMap.hdr), sample.out.corners[j].cidx)
              IN /\ sample.out.corners[j].voxel = near.ifile
                 /\ sample.out.corners[j].offset = near.offset
        /\ IntegralPoint(TheMap, sample.cart) =>
              RatEq(sample.out.rho, density_at_point(TheMap, sample.cart).value)

---------------------------------------------------------------------------
(* Properties of parse_symop_xyz on unrecognised input.                    *)

\* C23: for every input string parse_symop_xyz returns an operator without
\* aborting, and every term it does not recognise as +-x, +-y, +-z, a
\* decimal constant or an integer fraction p/q ("2x", "1/x", "1/2a", a
\* fourth comma-separated expression) contributes exactly zero to the
\* rotation and to the translation.
C23_UnrecognisedIsZero ==
    given \in MalformedTerms =>
        /\ pc = "symops" => ~scan.panic
        /\ pc = "refln" =>
              /\ Len(symops) = 1
              /\ \A i \in 1..3 :
                    /\ symops[1].r[i - 1][0] = CoeffSum(given[i], 1, "x")
                    /\ symops[1].r[i - 1][1] = CoeffSum(given[i], 1, "y")
                    /\ symops[1].r[i - 1][2] = CoeffSum(given[i], 1, "z")
                    /\ RatEq(symops[1].t[i - 1], ConstantSum(given[i], 1))

=============================================================================
